---- MODULE Spec2Model ----
(***************************************************************************)
(* A model of the compression policy engine of pdf-compressor              *)
(* (src/src/lib.rs): the quality mapper, the downsample policy, the        *)
(* standalone image pipeline and the document driver compress_pdf_bytes.   *)
(***************************************************************************)
EXTENDS Integers, Sequences, FiniteSets, TLC

VARIABLES qm, ds, im, env, envWriters, callsLeft, call, prev, par, lay, api,
          gui

vars == <<qm, ds, im, env, envWriters, callsLeft, call, prev, par, lay, api, gui>>

driverVars == <<env, envWriters, callsLeft, call, prev, par, lay, api, gui>>

(***************************************************************************)
(* Arithmetic helpers.                                                     *)
(***************************************************************************)
Min2(a, b) == IF a <= b THEN a ELSE b

Max2(a, b) == IF a >= b THEN a ELSE b

RECURSIVE Pow2(_)
Pow2(k) == IF k = 0 THEN 1 ELSE 2 * Pow2(k - 1)

RECURSIVE BitLen(_)
BitLen(n) == IF n = 0 THEN 0 ELSE 1 + BitLen(n \div 2)

(***************************************************************************)
(* IEEE-754 binary32 arithmetic on the values the code feeds it.  A value  *)
(* is a pair (mant, k) standing for mant * 2^-k.  The product of a small   *)
(* integer n (exact as f32) and a 24-bit significand is formed in two      *)
(* 12-bit limbs, rounded to 24 significant bits to nearest, ties to even,  *)
(* and truncated toward zero by the `as u8` / `as u32` casts.              *)
(***************************************************************************)
F32RoundShift(hi, lo, d) ==
    LET q   == IF d <= 12 THEN hi * Pow2(12 - d) + (lo \div Pow2(d))
                          ELSE hi \div Pow2(d - 12)
        rem == IF d <= 12 THEN lo % Pow2(d)
                          ELSE (hi % Pow2(d - 12)) * 4096 + lo
        half == IF d = 0 THEN 1 ELSE Pow2(d - 1)
    IN  IF d = 0 THEN q
        ELSE IF rem > half \/ (rem = half /\ q % 2 = 1) THEN q + 1 ELSE q

\* trunc(n * (mant * 2^-k)) computed as an f32 product, n < 2^13
F32MulTrunc(n, mant, k) ==
    IF n = 0 THEN 0
    ELSE LET a  == n * (mant \div 4096)
             b  == n * (mant % 4096)
             hi == a + (b \div 4096)
             lo == b % 4096
             d  == BitLen(hi) - 12
             q  == F32RoundShift(hi, lo, d)
         IN  IF k >= d THEN q \div Pow2(k - d) ELSE q * Pow2(d - k)

\* the f32 nearest to 0.4 is 13421773 * 2^-25, the one nearest to 0.8 is
\* 13421773 * 2^-24
Mant08 == 13421773

\* u8 subtraction: the value modulo 2^8, and whether it wrapped
USub8(a, b) == [val |-> (a - b) % 256, wrap |-> a < b]

\* f32 -> u8 cast of a non-negative value: saturating
AsU8(x) == IF x > 255 THEN 255 ELSE x

(***************************************************************************)
(* Quality mapper: compress_pdf_bytes lines 27-38, repeated verbatim in    *)
(* compress_image_bytes lines 421-432.                                     *)
(***************************************************************************)
ClampLevel(level) == Max2(Min2(level, 95), 10)

\* a plausible slip: the third segment written with the second segment's base
SegmentBaseCopied(cl) ==
    IF cl <= 25 THEN 100 ELSE IF cl <= 50 THEN 90 ELSE IF cl <= 75 THEN 90 ELSE 50

SegmentBase(cl) ==
    IF cl <= 25 THEN 100 ELSE IF cl <= 50 THEN 90 ELSE IF cl <= 75 THEN 70 ELSE 50

\* a plausible slip: the first segment's factor 0.4 written as 0.8
SegmentDropDoubled(cl) ==
    IF cl <= 25 THEN [inner |-> USub8(cl, 0),
                      drop |-> AsU8(F32MulTrunc(cl, Mant08, 24))]
    ELSE IF cl <= 50 THEN [inner |-> USub8(cl, 25),
                           drop |-> AsU8(F32MulTrunc(USub8(cl, 25).val, Mant08, 24))]
    ELSE IF cl <= 75 THEN [inner |-> USub8(cl, 50),
                           drop |-> AsU8(F32MulTrunc(USub8(cl, 50).val, Mant08, 24))]
    ELSE [inner |-> USub8(cl, 75), drop |-> AsU8(USub8(cl, 75).val)]

\* the amount subtracted from the segment base, with the inner u8 subtraction
SegmentDrop(cl) ==
    IF cl <= 25 THEN [inner |-> USub8(cl, 0),
                      drop |-> AsU8(F32MulTrunc(cl, Mant08, 25))]
    ELSE IF cl <= 50 THEN [inner |-> USub8(cl, 25),
                           drop |-> AsU8(F32MulTrunc(USub8(cl, 25).val, Mant08, 24))]
    ELSE IF cl <= 75 THEN [inner |-> USub8(cl, 50),
                           drop |-> AsU8(F32MulTrunc(USub8(cl, 50).val, Mant08, 24))]
    ELSE [inner |-> USub8(cl, 75), drop |-> AsU8(USub8(cl, 75).val)]

\* jpeg_quality and whether any u8 subtraction of the computation wrapped
JpegQuality(cl) ==
    LET sd    == SegmentDrop(cl)
        outer == USub8(SegmentBase(cl), sd.drop)
    IN  [val |-> outer.val, wrap |-> sd.inner.wrap \/ outer.wrap]

LevelToQuality(level) == JpegQuality(ClampLevel(level))

(***************************************************************************)
(* The mapper as a state machine: two calls, each with any u8 level; the   *)
(* first call's level and result are remembered so that the pair can be    *)
(* compared.                                                               *)
(***************************************************************************)
\* the state of the driver's variables while no invocation runs
DriverIdle ==
    /\ env = [set |-> FALSE, text |-> <<>>]
    /\ envWriters = {}
    /\ callsLeft = 0
    /\ call = [pc |-> "idle"]
    /\ prev = [pc |-> "idle"]
    /\ par = [pc |-> "idle"]
    /\ lay = [pc |-> "idle"]
    /\ api = [pc |-> "idle"] /\ gui = [pc |-> "idle"]

QmIdle == [called |-> FALSE, hadPrev |-> FALSE, level |-> 0, clamped |-> 0,
           quality |-> 0, wrapped |-> FALSE, prevLevel |-> 0, prevQuality |-> 0]

DsIdle == [pc |-> "idle", path |-> "none", quality |-> 0, width |-> 0,
           height |-> 0, tw |-> 0, th |-> 0, resized |-> FALSE]

NoResult == [kind |-> "none", ext |-> "", fmt |-> "", size |-> 0, err |-> ""]

ImIdle == [pc |-> "idle", format |-> "", decodable |-> FALSE,
           hasTarget |-> FALSE, target |-> <<>>, level |-> 0, quality |-> 0,
           encJpeg |-> 0, encPng |-> 0, encWebp |-> 0, targetFormat |-> "",
           attempts |-> {}, result |-> NoResult]

QmInit == qm = QmIdle /\ ds = DsIdle /\ im = ImIdle /\ DriverIdle

MapLevel(level) ==
    /\ ~qm.hadPrev
    /\ LET r == LevelToQuality(level)
       IN  qm' = [called |-> TRUE, hadPrev |-> qm.called, level |-> level,
                  clamped |-> ClampLevel(level), quality |-> r.val,
                  wrapped |-> r.wrap,
                  prevLevel |-> qm.level, prevQuality |-> qm.quality]
    /\ UNCHANGED <<ds, im, driverVars>>

QmNext == \E level \in 0..255 : MapLevel(level)

SpecQuality == QmInit /\ [][QmNext]_vars

\* C4: for levels a < b in 10..95 mapped one after the other, the quality
\* mapped from b is at most the quality mapped from a.
MonotonicQuality ==
    (qm.hadPrev /\ 10 <= qm.prevLevel /\ qm.prevLevel < qm.level /\ qm.level <= 95)
        => qm.quality <= qm.prevQuality

\* level 50 then level 51: the pair straddling the boundary at 50
MonotonicQualityWitness ==
    /\ qm.hadPrev /\ qm.prevLevel = 50 /\ qm.level = 51
    /\ qm.prevQuality = 70 /\ qm.quality = 70

\* The piecewise-linear map through (10,96) (25,90) (50,70) (75,50) (95,30),
\* stated without the code's arithmetic: q is the interpolated value between
\* the anchors (x0,y0) and (x1,y1) around cl, rounded up to an integer.
OnSegment(cl, q, x0, y0, x1, y1) ==
    LET num == y0 * (x1 - x0) - (cl - x0) * (y0 - y1)
        den == x1 - x0
    IN  q * den >= num /\ (q - 1) * den < num

IsInterpolated(cl, q) ==
    /\ (cl <= 25) => OnSegment(cl, q, 10, 96, 25, 90)
    /\ (cl >= 25 /\ cl <= 50) => OnSegment(cl, q, 25, 90, 50, 70)
    /\ (cl >= 50 /\ cl <= 75) => OnSegment(cl, q, 50, 70, 75, 50)
    /\ (cl >= 75) => OnSegment(cl, q, 75, 50, 95, 30)

\* C5: the mapper is total on 0..255: the level is clamped to [10,95], the
\* quality is the piecewise-linear value of the clamped level, it lies in
\* [25,100], and no u8 subtraction wraps.
MapperTotal ==
    qm.called =>
        /\ qm.clamped >= 10 /\ qm.clamped <= 95
        /\ (qm.level < 10 => qm.clamped = 10)
        /\ (qm.level > 95 => qm.clamped = 95)
        /\ (qm.level >= 10 /\ qm.level <= 95 => qm.clamped = qm.level)
        /\ IsInterpolated(qm.clamped, qm.quality)
        /\ qm.quality >= 25 /\ qm.quality <= 100
        /\ ~qm.wrapped

MapperTotalWitness ==
    /\ qm.called /\ qm.level = 255 /\ qm.clamped = 95 /\ qm.quality = 30
    /\ qm.hadPrev /\ qm.prevLevel = 0 /\ qm.prevQuality = 96

(***************************************************************************)
(* Downsample policy: compress_image_stream lines 366-389 (embedded path)  *)
(* and encode_image_with_quality lines 523-545 (standalone path).          *)
(***************************************************************************)
\* num / den as an f32: a 24-bit significand mant and k with value mant * 2^-k
RECURSIVE DivBits(_, _, _, _)
DivBits(q, r, den, k) ==
    IF q >= 8388608 THEN [q |-> q, r |-> r, k |-> k]
    ELSE LET bit == IF 2 * r >= den THEN 1 ELSE 0
         IN  DivBits(2 * q + bit, 2 * r - bit * den, den, k + 1)

F32Div(num, den) ==
    LET b  == DivBits(num \div den, num % den, den, 0)
        up == 2 * b.r > den \/ (2 * b.r = den /\ b.q % 2 = 1)
    IN  [mant |-> IF up THEN b.q + 1 ELSE b.q, k |-> b.k]

\* max_dimension of the code: 1500.0 / 1200.0 / 1000.0
MaxDimension(quality) ==
    IF quality >= 70 THEN 1500 ELSE IF quality >= 50 THEN 1200 ELSE 1000

\* the guard of the downsampling branch
WantsDownsample(quality, width, height) ==
    quality < 90 /\ (width > 1500 \/ height > 1500)

\* (new_w, new_h) of the downsampling branch
ScaledDims(quality, width, height) ==
    LET scale == F32Div(MaxDimension(quality), Max2(width, height))
    IN  [w |-> F32MulTrunc(width, scale.mant, scale.k),
         h |-> F32MulTrunc(height, scale.mant, scale.k),
         below1 |-> scale.mant < Pow2(scale.k)]

\* compress_image_stream: (target_width, target_height)
EmbeddedTarget(quality, width, height) ==
    IF WantsDownsample(quality, width, height)
    THEN LET s == ScaledDims(quality, width, height) IN [w |-> s.w, h |-> s.h]
    ELSE [w |-> width, h |-> height]

\* encode_image_with_quality: the dimensions of `downsampled`
StandaloneTarget(quality, width, height) ==
    IF WantsDownsample(quality, width, height)
    THEN LET s == ScaledDims(quality, width, height)
         IN  IF s.below1 THEN [w |-> s.w, h |-> s.h]
                         ELSE [w |-> width, h |-> height]
    ELSE [w |-> width, h |-> height]

\* the qualities the mapper can produce, and the image dimensions explored
Qualities == {LevelToQuality(l).val : l \in 0..255}

Dims == {1, 2, 640, 999, 1000, 1001, 1199, 1200, 1201, 1499, 1500, 1501,
         1502, 2000, 2999, 3000, 4000, 8191}

DsRequested(path, quality, width, height) ==
    [pc |-> "requested", path |-> path, quality |-> quality,
     width |-> width, height |-> height, tw |-> 0, th |-> 0,
     resized |-> FALSE]

\* a call of either path with any mapped quality and any explored size
DsInit ==
    /\ qm = QmIdle
    /\ im = ImIdle
    /\ DriverIdle
    /\ \E path \in {"embedded", "standalone"}, quality \in Qualities,
          width \in Dims, height \in Dims :
            ds = DsRequested(path, quality, width, height)

DsEmbedded ==
    /\ ds.pc = "requested" /\ ds.path = "embedded"
    /\ LET t == EmbeddedTarget(ds.quality, ds.width, ds.height)
       IN  ds' = [ds EXCEPT !.pc = "done", !.tw = t.w, !.th = t.h,
                            !.resized = (t.w # ds.width \/ t.h # ds.height)]
    /\ UNCHANGED <<qm, im, driverVars>>

DsStandalone ==
    /\ ds.pc = "requested" /\ ds.path = "standalone"
    /\ LET t == StandaloneTarget(ds.quality, ds.width, ds.height)
       IN  ds' = [ds EXCEPT !.pc = "done", !.tw = t.w, !.th = t.h,
                            !.resized = (t.w # ds.width \/ t.h # ds.height)]
    /\ UNCHANGED <<qm, im, driverVars>>

DsNext ==
    \/ DsEmbedded
    \/ DsStandalone

SpecDownsample == DsInit /\ [][DsNext]_vars

\* the cap of the policy as the specification states it (0: no cap)
PolicyCap(quality) ==
    IF quality < 50 THEN 1000
    ELSE IF quality < 70 THEN 1200
    ELSE IF quality < 90 THEN 1500 ELSE 0

\* C6: in both paths, an image whose larger dimension exceeds the cap of its
\* quality is scaled, both dimensions by the same ratio, so that the larger
\* dimension no longer exceeds the cap; every other image keeps its dimensions.
DownsampleCapPolicy ==
    ds.pc = "done" =>
        LET cap == PolicyCap(ds.quality)
            mx  == Max2(ds.width, ds.height)
        IN  IF cap # 0 /\ mx > cap
            THEN /\ Max2(ds.tw, ds.th) <= cap
                 /\ ds.tw * ds.height - ds.th * ds.width < ds.width
                 /\ ds.th * ds.width - ds.tw * ds.height < ds.height
            ELSE ds.tw = ds.width /\ ds.th = ds.height

(***************************************************************************)
(* Standalone image pipeline: compress_image_bytes, lines 415-513.         *)
(* An input is described by what the image library reports for it: the     *)
(* detected format, whether it decodes, and for each encoder the size of   *)
(* its output for this image at the mapped quality (0: the encoder fails). *)
(***************************************************************************)
LowerChar(c) ==
    CASE c = "J" -> "j" [] c = "P" -> "p" [] c = "G" -> "g" [] c = "E" -> "e"
      [] c = "N" -> "n" [] c = "W" -> "w" [] c = "B" -> "b" [] c = "I" -> "i"
      [] c = "F" -> "f" [] OTHER -> c

\* fmt.to_lowercase()
ToLowercase(name) == [i \in DOMAIN name |-> LowerChar(name[i])]

\* the match on the lowercased requested name; "unsupported" is the `_` arm
ParseTarget(lower) ==
    IF lower = <<"j", "p", "g">> \/ lower = <<"j", "p", "e", "g">> THEN "Jpeg"
    ELSE IF lower = <<"p", "n", "g">> THEN "Png"
    ELSE IF lower = <<"w", "e", "b", "p">> THEN "WebP"
    ELSE "unsupported"

\* the extension match of lines 501-506
Extension(format) ==
    CASE format = "Jpeg" -> "jpg" [] format = "Png" -> "png"
      [] format = "WebP" -> "webp" [] OTHER -> "img"

\* encode_image_with_quality(img, quality, format): the output size, 0 on Err
EncodedSize(i, format) ==
    CASE format = "Jpeg" -> i.encJpeg [] format = "Png" -> i.encPng
      [] format = "WebP" -> i.encWebp [] OTHER -> 0

OkResult(i, format, ext) ==
    [kind |-> "ok", ext |-> ext, fmt |-> format,
     size |-> EncodedSize(i, format), err |-> ""]

ErrResult(msg) == [kind |-> "err", ext |-> "", fmt |-> "", size |-> 0, err |-> msg]

\* a plausible slip: `png_size <= jpeg_size` (the 10% tolerance forgotten)
PrefersPngNoTolerance(jpegSize, pngSize) == pngSize <= jpegSize

\* png_size as f64 <= jpeg_size as f64 * 1.1.  The f64 nearest to 1.1 lies
\* 8.9e-17 above it, so for sizes below 2^31 the rounded product is >= the
\* integer png_size exactly when 10 * png_size <= 11 * jpeg_size.
PrefersPng(jpegSize, pngSize) == 10 * pngSize <= 11 * jpegSize

\* a plausible slip: the explicit request resolved like the `_` arm of an
\* extension match, falling back to JPEG
ResolveExplicitDefaulting(name) ==
    IF ParseTarget(ToLowercase(name)) = "unsupported" THEN "Jpeg"
    ELSE ParseTarget(ToLowercase(name))

\* the explicit arm of `let target_format = ...`
ResolveExplicit(name) == ParseTarget(ToLowercase(name))

\* the requested names, detected formats and encoder outputs explored
TargetNames ==
    {<<"j", "p", "g">>, <<"J", "P", "G">>, <<"j", "p", "e", "g">>,
     <<"J", "p", "E", "g">>, <<"p", "n", "g">>, <<"P", "N", "G">>,
     <<"w", "e", "b", "p">>, <<"W", "e", "b", "P">>, <<"g", "i", "f">>,
     <<"b", "m", "p">>, <<"i", "n", "v", "a", "l", "i", "d">>, <<>>,
     <<"j", "p", "g", " ">>, <<"i", "m", "g">>}

SourceFormats == {"Jpeg", "WebP", "Png", "Gif", "Bmp", "Unknown"}

JpegSizes == {0, 10, 20}

PngSizes == {0, 5, 11, 12, 22, 23}

WebpSizes == {0, 15}

ImLevels == {10, 75}

ImInit ==
    /\ DriverIdle
    /\ qm = QmIdle
    /\ ds = DsIdle
    /\ \E format \in SourceFormats, decodable \in BOOLEAN,
          hasTarget \in BOOLEAN, target \in TargetNames, level \in ImLevels,
          ej \in JpegSizes, ep \in PngSizes, ew \in WebpSizes :
            /\ (format = "Unknown" => ~decodable)
            /\ (~hasTarget => target = <<>>)
            /\ im = [ImIdle EXCEPT !.pc = "start", !.format = format,
                        !.decodable = decodable, !.hasTarget = hasTarget,
                        !.target = target, !.level = level,
                        !.encJpeg = ej, !.encPng = ep, !.encWebp = ew]

\* lines 420-434: clamp the level and map it to the quality
ImMapQuality ==
    /\ im.pc = "start"
    /\ im' = [im EXCEPT !.pc = "detect",
                        !.quality = LevelToQuality(im.level).val]
    /\ UNCHANGED <<qm, ds, driverVars>>

\* lines 436-447: image::guess_format and image::load_from_memory
ImDetectAndLoad ==
    /\ im.pc = "detect"
    /\ im' = IF im.format = "Unknown"
             THEN [im EXCEPT !.pc = "done", !.result = ErrResult("detect")]
             ELSE IF ~im.decodable
             THEN [im EXCEPT !.pc = "done", !.result = ErrResult("load")]
             ELSE [im EXCEPT !.pc = "resolve"]
    /\ UNCHANGED <<qm, ds, driverVars>>

\* lines 450-456: an explicit request
ImResolveExplicit ==
    /\ im.pc = "resolve" /\ im.hasTarget
    /\ LET t == ResolveExplicit(im.target)
       IN  im' = IF t = "unsupported"
                 THEN [im EXCEPT !.pc = "done",
                                 !.result = ErrResult("Unsupported output format")]
                 ELSE [im EXCEPT !.pc = "encode", !.targetFormat = t]
    /\ UNCHANGED <<qm, ds, driverVars>>

\* lines 457-461: no request, a source that is already lossy
ImResolveLossy ==
    /\ im.pc = "resolve" /\ ~im.hasTarget
    /\ im.format \in {"Jpeg", "WebP"}
    /\ im' = [im EXCEPT !.pc = "encode", !.targetFormat = "Jpeg"]
    /\ UNCHANGED <<qm, ds, driverVars>>

\* lines 462-495: no request, any other source: encode both and choose
ImTryBoth ==
    /\ im.pc = "resolve" /\ ~im.hasTarget
    /\ im.format \notin {"Jpeg", "WebP"}
    /\ LET j == EncodedSize(im, "Jpeg")
           p == EncodedSize(im, "Png")
           r == IF j # 0 /\ p # 0
                THEN IF PrefersPng(j, p) THEN OkResult(im, "Png", "png")
                                         ELSE OkResult(im, "Jpeg", "jpg")
                ELSE IF j # 0 THEN OkResult(im, "Jpeg", "jpg")
                ELSE IF p # 0 THEN OkResult(im, "Png", "png")
                ELSE ErrResult("Both JPEG and PNG encoding failed")
       IN  im' = [im EXCEPT !.pc = "done", !.result = r,
                     !.attempts = {[format |-> "Jpeg", quality |-> im.quality],
                                   [format |-> "Png", quality |-> im.quality]}]
    /\ UNCHANGED <<qm, ds, driverVars>>

\* lines 499-512: encode with the resolved format, `?` on its error
ImEncodeTarget ==
    /\ im.pc = "encode"
    /\ LET n == EncodedSize(im, im.targetFormat)
       IN  im' = [im EXCEPT !.pc = "done",
                     !.attempts = {[format |-> im.targetFormat,
                                    quality |-> im.quality]},
                     !.result = IF n = 0 THEN ErrResult("encoding failed")
                                ELSE OkResult(im, im.targetFormat,
                                              Extension(im.targetFormat))]
    /\ UNCHANGED <<qm, ds, driverVars>>

ImNext ==
    \/ ImMapQuality
    \/ ImDetectAndLoad
    \/ ImResolveExplicit
    \/ ImResolveLossy
    \/ ImTryBoth
    \/ ImEncodeTarget

SpecImage == ImInit /\ [][ImNext]_vars

\* the case variants of a lower-case word, letter by letter
UpperOf(c) ==
    CASE c = "j" -> "J" [] c = "p" -> "P" [] c = "g" -> "G" [] c = "e" -> "E"
      [] c = "n" -> "N" [] c = "w" -> "W" [] c = "b" -> "B" [] OTHER -> c

SameIgnoringCase(name, word) ==
    /\ Len(name) = Len(word)
    /\ \A i \in 1..Len(word) : name[i] = word[i] \/ name[i] = UpperOf(word[i])

\* the format a requested name stands for, "none" for every other name
RequestedFormat(name) ==
    IF SameIgnoringCase(name, <<"j", "p", "g">>)
       \/ SameIgnoringCase(name, <<"j", "p", "e", "g">>) THEN "Jpeg"
    ELSE IF SameIgnoringCase(name, <<"p", "n", "g">>) THEN "Png"
    ELSE IF SameIgnoringCase(name, <<"w", "e", "b", "p">>) THEN "WebP"
    ELSE "none"

RequestedExtension(f) ==
    IF f = "Jpeg" THEN "jpg" ELSE IF f = "Png" THEN "png" ELSE "webp"

ImRequestDone ==
    im.pc = "done" /\ im.decodable /\ im.format # "Unknown" /\ im.hasTarget

ImRejected ==
    /\ im.result.kind = "err"
    /\ im.result.err = "Unsupported output format"
    /\ im.result.size = 0
    /\ im.attempts = {}

\* C7 as stated: for every decodable input and requested name, a supported
\* name (any letter case) makes the call encode to that format and return
\* its extension; every other name is rejected as unsupported, with no
\* output and no fallback.
FormatValidationAlwaysEncodes ==
    ImRequestDone =>
        LET f == RequestedFormat(im.target)
        IN  IF f # "none"
            THEN /\ im.result.kind = "ok"
                 /\ im.result.fmt = f
                 /\ im.result.ext = RequestedExtension(f)
            ELSE ImRejected

\* C7 amended: as above when the encoder of the requested format succeeds;
\* when it fails the call returns that encoder's error, having tried no
\* other format.
FormatValidation ==
    ImRequestDone =>
        LET f == RequestedFormat(im.target)
        IN  IF f # "none"
            THEN /\ im.attempts = {[format |-> f, quality |-> im.quality]}
                 /\ IF EncodedSize(im, f) # 0
                    THEN /\ im.result.kind = "ok"
                         /\ im.result.fmt = f
                         /\ im.result.ext = RequestedExtension(f)
                         /\ im.result.size = EncodedSize(im, f)
                    ELSE /\ im.result.kind = "err"
                         /\ im.result.err = "encoding failed"
                         /\ im.result.size = 0
            ELSE ImRejected

\* a JPEG source with the request "PNG" returns png
FormatValidationWitness ==
    /\ ImRequestDone /\ im.format = "Jpeg" /\ im.target = <<"P", "N", "G">>
    /\ im.result.kind = "ok" /\ im.result.ext = "png" /\ im.result.fmt = "Png"

ImAutoDone ==
    im.pc = "done" /\ im.decodable /\ im.format # "Unknown" /\ ~im.hasTarget

ImReturns(format, ext) ==
    /\ im.result.kind = "ok" /\ im.result.fmt = format /\ im.result.ext = ext
    /\ im.result.size = EncodedSize(im, format)

ImBothTried ==
    LET q == LevelToQuality(im.level).val
    IN  /\ im.attempts = {[format |-> "Jpeg", quality |-> q],
                          [format |-> "Png", quality |-> q]}
        /\ IF im.encJpeg # 0 /\ im.encPng # 0
           THEN IF 10 * im.encPng <= 11 * im.encJpeg
                THEN ImReturns("Png", "png") ELSE ImReturns("Jpeg", "jpg")
           ELSE IF im.encJpeg # 0 THEN ImReturns("Jpeg", "jpg")
           ELSE IF im.encPng # 0 THEN ImReturns("Png", "png")
           ELSE im.result.kind = "err" /\ im.result.size = 0

\* C8 as stated: with no requested format a JPEG or WebP source is encoded
\* as JPEG and returns jpg; any other source is encoded as JPEG and as PNG,
\* the PNG is returned when it is at most 10% larger than the JPEG, else the
\* JPEG; one failure returns the other candidate, two failures an error.
TargetResolutionLossyAlwaysJpg ==
    ImAutoDone =>
        IF im.format \in {"Jpeg", "WebP"}
        THEN ImReturns("Jpeg", "jpg")
        ELSE ImBothTried

\* C8 amended: as above, except that for a JPEG or WebP source whose JPEG
\* encoding fails the call returns that error, having tried no other format.
TargetResolution ==
    ImAutoDone =>
        IF im.format \in {"Jpeg", "WebP"}
        THEN /\ im.attempts = {[format |-> "Jpeg",
                                quality |-> LevelToQuality(im.level).val]}
             /\ IF im.encJpeg # 0 THEN ImReturns("Jpeg", "jpg")
                ELSE /\ im.result.kind = "err"
                     /\ im.result.err = "encoding failed"
                     /\ im.result.size = 0
        ELSE ImBothTried

\* a PNG source whose PNG candidate is exactly 10% larger than the JPEG one
TargetResolutionWitness ==
    /\ ImAutoDone /\ im.format = "Png" /\ im.encJpeg = 10 /\ im.encPng = 11
    /\ im.result.kind = "ok" /\ im.result.ext = "png"

(***************************************************************************)
(* The document of compress_pdf_bytes: lopdf's Document, a map from object *)
(* identifiers to objects, and the trailer's Root.  An object is a plain   *)
(* dictionary or a stream; a stream carries the dictionary entries the     *)
(* code reads and, for its payload, what the codecs report for it: whether *)
(* the stored bytes can be inverse-transformed (inflates) and to how many  *)
(* bytes (rawLen), the size of the zlib(best) encoding the generic path or *)
(* the library computes for it (deflLen, 0: the encoder fails), the size   *)
(* of its JPEG encoding at the call's quality (jpegLen, 0: the encoder     *)
(* fails), the AHasher value of the stored bytes (hash) and the identity   *)
(* of the stored bytes themselves (content): streams with the same         *)
(* content have the same hash, streams with the same hash need not have    *)
(* the same content.  filterArray tells a Filter entry that is an array of *)
(* names from one that is a single name.  asIsLen is the size the stored   *)
(* bytes would have if deflated as they are, without inverting the filter. *)
(* The declared Width of an image is widthHigh * 2^32 + width, its Height  *)
(* heightHigh * 2^32 + height: width and height are what `as u32` keeps.   *)
(***************************************************************************)
MkDict(type, refs) ==
    [kind |-> "dict", type |-> type, refs |-> refs, image |-> FALSE,
     filter |-> "None", hasW |-> FALSE, hasH |-> FALSE, width |-> 0,
     height |-> 0, bpc |-> 8, colorSpace |-> "None", length |-> 0,
     len |-> 0, inflates |-> FALSE, rawLen |-> 0, deflLen |-> 0,
     jpegLen |-> 0, hash |-> 0, content |-> 0, filterArray |-> FALSE,
     asIsLen |-> 0, widthHigh |-> 0, heightHigh |-> 0,
     predictor |-> FALSE, coding |-> <<>>]

MkStream(type, image, filter, len, inflates, rawLen, deflLen, hash) ==
    [MkDict(type, {}) EXCEPT !.kind = "stream", !.image = image,
        !.filter = filter, !.length = len, !.len = len,
        !.inflates = inflates, !.rawLen = rawLen, !.deflLen = deflLen,
        !.hash = hash, !.content = hash,
        !.asIsLen = IF filter = "None" THEN deflLen ELSE len,
        !.coding = IF filter = "FlateDecode" /\ inflates THEN <<"zlib">>
                   ELSE <<>>]

MkImage(filter, hasWH, bpc, len, inflates, rawLen, jpegLen, hash) ==
    [MkStream("XObject", TRUE, filter, len, inflates, rawLen, len, hash)
        EXCEPT !.hasW = hasWH, !.hasH = hasWH,
               !.width = IF hasWH THEN 2 ELSE 0,
               !.height = IF hasWH THEN 5 ELSE 0,
               !.bpc = bpc, !.colorSpace = "DeviceGray", !.jpegLen = jpegLen]

IsStream(o) == o.kind = "stream"

Streams(doc) == {id \in DOMAIN doc : IsStream(doc[id])}

\* is_image_stream: Subtype is the name Image
IsImageStream(s) == s.image

(***************************************************************************)
(* compress_image_stream, lines 275-411.                                   *)
(***************************************************************************)
Rejected(reason, s) == [ok |-> FALSE, err |-> reason, stream |-> s]

\* lines 306-324: the samples the layout is inferred from; 0 - 1 stands
\* for a failed inverse transform.  Only a Filter that is a single name
\* matches `Ok(Object::Name(filter))`: with an array the stored bytes are
\* taken as they are.
ImageContentLen(s) ==
    IF s.filter # "None" /\ ~s.filterArray
    THEN IF s.inflates THEN s.rawLen ELSE 0 - 1
    ELSE s.len

(***************************************************************************)
(* Lines 285-364 on integers of their width.  A declared Width or Height   *)
(* is an i64, written high * 2^32 + hi * 2^16 + lo with 16-bit hi and lo;  *)
(* a u32 is hi * 2^16 + lo.                                                *)
(***************************************************************************)
Half == 65536

Declared(high, hi, lo) == [high |-> high, hi |-> hi, lo |-> lo]

\* lines 287 and 292: `*w as u32` keeps the low 32 bits
AsU32(d) == [hi |-> d.hi, lo |-> d.lo]

ToU32(v) == [hi |-> v \div Half, lo |-> v % Half]

\* line 329: `width * height` in u32; overflow tells that the product does
\* not fit, val is the wrapped product
MulU32(a, b) ==
    LET low == a.lo * b.lo
        mid == a.hi * b.lo + a.lo * b.hi + low \div Half
    IN  [val |-> [hi |-> mid % Half, lo |-> low % Half],
         overflow |-> a.hi * b.hi > 0 \/ mid \div Half > 0]

\* `n == pixel_count * c` in usize, for a length n below 2^29: a pixel
\* count of 2^29 or more is no such length
TimesEquals(pixelCount, c, n) ==
    /\ pixelCount.hi < 8192
    /\ (pixelCount.hi * Half + pixelCount.lo) * c = n

\* lines 343, 350, 357: ImageBuffer::from_raw accepts the buffer when it
\* holds width * height * c samples, computed without wrap-around
FromRawAccepts(width, height, c, n) ==
    /\ ~MulU32(width, height).overflow
    /\ MulU32(width, height).val.hi < 8192
    /\ (MulU32(width, height).val.hi * Half + MulU32(width, height).val.lo) * c
          <= n

\* lines 329-364: the layout inferred for u32 dimensions and n sample
\* bytes.  A build with overflow checks panics when the product does not
\* fit; a build without them goes on with the wrapped product.
InferLayout(width, height, n, checks) ==
    LET p == MulU32(width, height)
        c == IF TimesEquals(p.val, 3, n) THEN 3
             ELSE IF TimesEquals(p.val, 4, n) THEN 4
             ELSE IF TimesEquals(p.val, 1, n) THEN 1
             ELSE 0
    IN  IF p.overflow /\ checks THEN [kind |-> "abort", components |-> 0]
        ELSE IF c = 0 \/ ~FromRawAccepts(width, height, c, n)
        THEN [kind |-> "reject", components |-> 0]
        ELSE [kind |-> "layout", components |-> c]

\* lines 329-338: the component count, 0 for an unexpected size
Components(width, height, n) ==
    InferLayout(ToU32(width), ToU32(height), n, FALSE).components

\* lines 391-408: the stream returned after a successful JPEG encoding
JpegStreamAt(s, t) ==
    LET resized == t.w # s.width \/ t.h # s.height
    IN  [s EXCEPT !.filter = "DCTDecode", !.filterArray = FALSE,
                  !.length = s.jpegLen,
                  !.colorSpace = "DeviceRGB", !.len = s.jpegLen,
                  !.width = t.w, !.height = t.h,
                  !.widthHigh = IF resized THEN 0 ELSE s.widthHigh,
                  !.heightHigh = IF resized THEN 0 ELSE s.heightHigh]

\* lines 366-408: the encoded image is the downsampled one
JpegStream(s, quality) ==
    JpegStreamAt(s, EmbeddedTarget(quality, s.width, s.height))

\* a plausible slip: the early return left out
AlreadyJpegUnchecked(s) == FALSE

\* lines 279-283: the Filter entry is the name DCTDecode
AlreadyJpeg(s) == s.filter = "DCTDecode" /\ ~s.filterArray

CompressImageStream(s, quality) ==
    IF AlreadyJpeg(s) THEN Rejected("Already JPEG (DCTDecode)", s)
    ELSE IF ~s.hasW THEN Rejected("No width", s)
    ELSE IF ~s.hasH THEN Rejected("No height", s)
    ELSE IF s.bpc # 8 THEN Rejected("Not 8-bit", s)
    ELSE IF ImageContentLen(s) < 0
         THEN Rejected(IF s.filter = "FlateDecode"
                       THEN "Manual decompression failed"
                       ELSE "Decompress failed", s)
    ELSE IF Components(s.width, s.height, ImageContentLen(s)) = 0
         THEN Rejected("Unexpected size", s)
    ELSE IF s.jpegLen = 0 THEN Rejected("Image encoding failed", s)
    ELSE [ok |-> TRUE, err |-> "", stream |-> JpegStream(s, quality)]

(***************************************************************************)
(* compress_generic_stream, lines 215-266.                                 *)
(***************************************************************************)
\* the PNG predictor undone: it removes the prediction of predicted rows
\* and turns any other bytes into different ones
UndoPredictor(coding) ==
    IF coding # <<>> /\ Head(coding) = "png" THEN Tail(coding)
    ELSE <<"unpng">> \o coding

\* lopdf Stream::decompressed_content for a stream that is not an image:
\* FlateDecode is inflated and the predictor of DecodeParms undone
LibDecompressedContent(s) ==
    IF s.filter = "FlateDecode" /\ ~s.filterArray
       /\ s.coding # <<>> /\ Head(s.coding) = "zlib"
    THEN [ok |-> TRUE,
          coding |-> IF s.predictor THEN UndoPredictor(Tail(s.coding))
                     ELSE Tail(s.coding)]
    ELSE [ok |-> FALSE, coding |-> <<>>]

\* lines 227 and 252: the bytes ZlibEncoder is given, decompressed_content()
\* for a stream with a Filter and stream.content for one without
DeflateInput(s) ==
    IF s.filter = "None" THEN s.coding
    ELSE LibDecompressedContent(s).coding

\* lines 237-240 and 257-260: the re-deflated stream under the cloned
\* dictionary, every entry but Filter and Length as it was
FlateStream(s) ==
    [s EXCEPT !.filter = "FlateDecode", !.filterArray = FALSE,
              !.length = s.deflLen,
              !.len = s.deflLen, !.inflates = TRUE,
              !.rawLen = IF s.filter = "None" THEN s.len ELSE s.rawLen,
              !.coding = <<"zlib">> \o DeflateInput(s)]

CompressGenericStream(s) ==
    IF s.filter # "None"
    THEN IF s.inflates /\ s.deflLen # 0 /\ s.deflLen < s.len
         THEN FlateStream(s) ELSE s
    ELSE IF s.deflLen # 0 /\ s.deflLen < s.len
         THEN FlateStream(s) ELSE s

(***************************************************************************)
(* The closure of one parallel task of compress_all_streams, lines 160-195.*)
(***************************************************************************)
\* a plausible slip: `new_size <= *original_size`
SmallerOrEqual(newSize, originalSize) == newSize <= originalSize

\* line 182: the commit gate
Smaller(newSize, originalSize) == newSize < originalSize

\* the value the closure returns for a work item: Some((obj_id, stream)) is
\* kind "replace", None is "reject" (the image path failed) or "keep"
OutcomeOf(item, img, generic) ==
    LET compressed == IF item.isImage THEN img.stream ELSE generic
    IN  IF item.isImage /\ ~img.ok
        THEN [kind |-> "reject", why |-> img.err, stream |-> item.stream,
              saved |-> 0]
        ELSE IF Smaller(compressed.len, item.originalSize)
        THEN [kind |-> "replace", why |-> "", stream |-> compressed,
              saved |-> item.originalSize - compressed.len]
        ELSE [kind |-> "keep", why |-> "not smaller", stream |-> item.stream,
              saved |-> 0]

\* lines 166-180: the image path for an image, the generic one otherwise
TaskOutcome(item, quality) ==
    OutcomeOf(item, CompressImageStream(item.stream, quality),
              CompressGenericStream(item.stream))

(***************************************************************************)
(* The round setting: std::env::var("PDF_COMPRESSION_ROUNDS"), lines 77-81.*)
(* A setting is absent or a text, a sequence of characters.                *)
(***************************************************************************)
Absent == [set |-> FALSE, text |-> <<>>]

Setting(text) == [set |-> TRUE, text |-> text]

DigitValue(c) ==
    CASE c = "0" -> 0 [] c = "1" -> 1 [] c = "2" -> 2 [] c = "3" -> 3
      [] c = "4" -> 4 [] c = "5" -> 5 [] c = "6" -> 6 [] c = "7" -> 7
      [] c = "8" -> 8 [] c = "9" -> 9 [] OTHER -> 0 - 1

\* u32 accumulation `result * 10 + digit` with checked arithmetic, the u32
\* held as hi * 10^5 + lo; u32::MAX is 42949 * 10^5 + 67295
RECURSIVE ParseDigits(_, _, _, _)
ParseDigits(text, i, hi, lo) ==
    IF i > Len(text) THEN [ok |-> TRUE, hi |-> hi, lo |-> lo]
    ELSE IF DigitValue(text[i]) < 0 THEN [ok |-> FALSE, hi |-> 0, lo |-> 0]
    ELSE LET lo2 == lo * 10 + DigitValue(text[i])
             hi2 == hi * 10 + (lo2 \div 100000)
             lo3 == lo2 % 100000
         IN  IF hi2 > 42949 \/ (hi2 = 42949 /\ lo3 > 67295)
             THEN [ok |-> FALSE, hi |-> 0, lo |-> 0]
             ELSE ParseDigits(text, i + 1, hi2, lo3)

\* v.parse::<u32>(): an optional leading '+', then one or more digits
ParseU32(text) ==
    LET body == IF Len(text) > 0 /\ text[1] = "+"
                THEN SubSeq(text, 2, Len(text)) ELSE text
    IN  IF Len(body) = 0 THEN [ok |-> FALSE, hi |-> 0, lo |-> 0]
        ELSE ParseDigits(body, 1, 0, 0)

\* a plausible slip: the cap `.min(5)` left out
RoundBudgetUncapped(setting) ==
    LET parsed == ParseU32(setting.text)
    IN  IF setting.set /\ parsed.ok
        THEN IF parsed.hi > 0 THEN 100000 ELSE parsed.lo
        ELSE 2

\* compression_rounds: .ok().and_then(parse).unwrap_or(2).min(5)
RoundBudget(setting) ==
    LET parsed == ParseU32(setting.text)
    IN  IF setting.set /\ parsed.ok
        THEN IF parsed.hi > 0 THEN 5 ELSE Min2(parsed.lo, 5)
        ELSE 2

(***************************************************************************)
(* The container library's operations, as the driver calls them.           *)
(***************************************************************************)
RECURSIVE ReachFrom(_, _, _)
ReachFrom(doc, frontier, seen) ==
    IF frontier = {} THEN seen
    ELSE LET next == UNION {doc[id].refs : id \in frontier} \cap DOMAIN doc
         IN  ReachFrom(doc, next \ (seen \cup frontier), seen \cup frontier)

\* the objects reachable from the trailer's Root
Reachable(doc, root) == ReachFrom(doc, {root} \cap DOMAIN doc, {})

Restrict(doc, ids) == [id \in ids |-> doc[id]]

\* the bytes a Filter entry costs: the library deflates an unfiltered stream
\* only when the result is smaller by more than this
LibFilterMargin == 19

\* doc.compress(): every stream without a Filter is deflated by the library
\* when that makes it smaller by more than the margin
LibCompress(doc) ==
    [id \in DOMAIN doc |->
        IF IsStream(doc[id]) /\ doc[id].filter = "None" /\ doc[id].deflLen # 0
           /\ doc[id].deflLen + LibFilterMargin < doc[id].len
        THEN FlateStream(doc[id]) ELSE doc[id]]

\* doc.prune_objects(): drop the objects not reachable from the trailer
PruneObjects(doc, root) == Restrict(doc, Reachable(doc, root))

\* doc.delete_zero_length_streams(): drop every stream with an empty payload
\* together with the references to it
DeleteZeroLengthStreams(doc) ==
    LET dead == {id \in Streams(doc) : doc[id].len = 0}
    IN  [id \in DOMAIN doc \ dead |-> [doc[id] EXCEPT !.refs = @ \ dead]]

(***************************************************************************)
(* Steps of compress_pdf_bytes that are pure functions of the document.    *)
(***************************************************************************)
\* a plausible slip: the closure of retain returning `name == b"Metadata"`
RetainedInverted(o) == ~(o.kind = "dict" /\ o.type # "None") \/ o.type = "Metadata"

\* lines 65-72: the closure of doc.objects.retain
Retained(o) == ~(o.kind = "dict" /\ o.type = "Metadata")

StripMetadata(doc) == Restrict(doc, {id \in DOMAIN doc : Retained(doc[id])})

\* lines 85-88: one compression round
CompactRound(doc, root) ==
    DeleteZeroLengthStreams(PruneObjects(LibCompress(doc), root))

\* a plausible slip: the final cleanup written as one more round
FinalCleanupDeleting(doc, root) ==
    DeleteZeroLengthStreams(PruneObjects(LibCompress(doc), root))

\* lines 93-94: the final cleanup
FinalCleanup(doc, root) == PruneObjects(LibCompress(doc), root)

\* remove_duplicate_objects, lines 108-135: the number of streams whose
\* content hash was already seen on a stream with a smaller identifier
DuplicateCount(doc) ==
    Cardinality({id \in Streams(doc) :
                    \E other \in Streams(doc) :
                        other < id /\ doc[other].hash = doc[id].hash})

\* a plausible slip: the duplicates found are dropped from the document
AfterDedupDropping(doc) ==
    Restrict(doc, {id \in DOMAIN doc :
                      ~(IsStream(doc[id]) /\ \E other \in Streams(doc) :
                           other < id /\ doc[other].hash = doc[id].hash)})

\* remove_duplicate_objects, lines 108-135: the document after the call;
\* the function only reads doc.objects and fills local collections
AfterDedup(doc) == doc

\* lines 141-147: objects_to_update, in the order of doc.objects (a BTreeMap)
RECURSIVE WorkList(_, _)
WorkList(doc, ids) ==
    IF ids = {} THEN <<>>
    ELSE LET id == CHOOSE x \in ids : \A y \in ids : x <= y
         IN  <<[id |-> id, stream |-> doc[id],
                isImage |-> IsImageStream(doc[id]),
                originalSize |-> doc[id].len]>>
             \o WorkList(doc, ids \ {id})

\* a plausible slip: the streams without a replacement taken out
RECURSIVE ApplyReplacementsOnly(_, _, _, _)
ApplyReplacementsOnly(doc, work, outcomes, k) ==
    IF k > Len(work) THEN doc
    ELSE ApplyReplacementsOnly(
            IF outcomes[k].kind = "replace"
            THEN [id \in DOMAIN doc \cup {work[k].id} |->
                     IF id = work[k].id THEN outcomes[k].stream ELSE doc[id]]
            ELSE [id \in DOMAIN doc \ {work[k].id} |-> doc[id]],
            work, outcomes, k + 1)

\* lines 200-202: insert every collected replacement under its identifier
RECURSIVE ApplyReplacements(_, _, _, _)
ApplyReplacements(doc, work, outcomes, k) ==
    IF k > Len(work) THEN doc
    ELSE ApplyReplacements(
            IF outcomes[k].kind = "replace"
            THEN [id \in DOMAIN doc \cup {work[k].id} |->
                     IF id = work[k].id THEN outcomes[k].stream ELSE doc[id]]
            ELSE doc,
            work, outcomes, k + 1)

\* a plausible slip: an image failure returned from compress_all_streams
CoordinatorPropagates(outcomes) ==
    \A k \in DOMAIN outcomes : outcomes[k].kind # "reject"

\* line 212: compress_all_streams returns Ok(()) whatever the outcomes
CoordinatorOk(outcomes) == TRUE

(***************************************************************************)
(* compress_pdf_bytes as a state machine.  `call` is the running           *)
(* invocation, `prev` what the previous invocation of the process was      *)
(* given and returned, `env` the value of PDF_COMPRESSION_ROUNDS in the    *)
(* process environment, `envWriters` the values other threads of the       *)
(* process write to it, `callsLeft` the invocations still to come.         *)
(***************************************************************************)
EmptyDoc == [id \in {} |-> MkDict("None", {})]

NoOutput == [kind |-> "none", err |-> "", doc |-> EmptyDoc, root |-> 0]

Pending == [kind |-> "pending", why |-> "", stream |-> MkDict("None", {}),
            saved |-> 0]

NewCall(input, level) ==
    [pc |-> "start", input |-> input, level |-> level, quality |-> 0,
     doc |-> EmptyDoc, root |-> 0, removed |-> 0, work |-> <<>>,
     outcomes |-> <<>>, before |-> EmptyDoc, compressedCount |-> 0,
     imageCount |-> 0, totalSaved |-> 0, recompressCalls |-> 0,
     envRead |-> Absent, budget |-> 0, rounds |-> 0, trace |-> <<>>,
     result |-> NoOutput]

NoCall == [input |-> [parses |-> FALSE, empty |-> TRUE, saveFails |-> FALSE,
                      doc |-> EmptyDoc, root |-> 0],
           level |-> 0, envRead |-> Absent, rounds |-> 0, trace |-> <<>>,
           result |-> NoOutput]

\* what an invocation was given, read and returned
Summary(c) ==
    [input |-> c.input, level |-> c.level, envRead |-> c.envRead,
     rounds |-> c.rounds, trace |-> c.trace, result |-> c.result]

Quiet ==
    /\ qm = QmIdle /\ ds = DsIdle /\ im = ImIdle
    /\ par = [pc |-> "idle"] /\ lay = [pc |-> "idle"]
    /\ api = [pc |-> "idle"] /\ gui = [pc |-> "idle"]

Frame == UNCHANGED <<qm, ds, im, env, envWriters, callsLeft, prev, par, lay, api, gui>>

\* lines 27-44
Start ==
    /\ call.pc = "start"
    /\ call' = [call EXCEPT !.pc = "load",
                            !.quality = LevelToQuality(call.level).val,
                            !.trace = Append(@, "Start")]
    /\ Frame

\* lines 47-51: Document::load_mem succeeds
LoadOk ==
    /\ call.pc = "load" /\ call.input.parses
    /\ call' = [call EXCEPT !.pc = "dedup", !.doc = call.input.doc,
                            !.root = call.input.root]
    /\ Frame

\* lines 47-48: Document::load_mem fails, `?` returns the error
LoadFail ==
    /\ call.pc = "load" /\ ~call.input.parses
    /\ call' = [call EXCEPT !.pc = "done",
                   !.result = [NoOutput EXCEPT !.kind = "err",
                                               !.err = "Failed to load PDF"]]
    /\ Frame

\* lines 53-56
Dedup ==
    /\ call.pc = "dedup"
    /\ call' = [call EXCEPT !.pc = "collect",
                            !.removed = DuplicateCount(call.doc),
                            !.doc = AfterDedup(call.doc),
                            !.trace = Append(@, "Dedup")]
    /\ Frame

\* compress_all_streams, lines 138-154: clone every stream, zero the counters
Collect ==
    /\ call.pc = "collect"
    /\ LET work == WorkList(call.doc, Streams(call.doc))
       IN  call' = [call EXCEPT !.pc = "parallel", !.work = work,
                       !.outcomes = [k \in 1..Len(work) |-> Pending],
                       !.before = call.doc,
                       !.trace = Append(@, "CompressStreams")]
    /\ Frame

\* lines 162-185: the counters a task updates and the value it returns
TaskReturns(k, o) ==
    call' = [call EXCEPT
               !.outcomes[k] = o,
               !.imageCount = @ + (IF call.work[k].isImage THEN 1 ELSE 0),
               !.compressedCount = @ + (IF o.kind = "replace" THEN 1 ELSE 0),
               !.totalSaved = @ + o.saved,
               !.recompressCalls = @ + 1]

\* compress_all_streams, lines 160-195: one task of the parallel iterator
ProcessTask(k) ==
    /\ call.pc = "parallel"
    /\ call.outcomes[k].kind = "pending"
    /\ TaskReturns(k, TaskOutcome(call.work[k], call.quality))
    /\ Frame

\* a plausible slip: replacements inserted as soon as one task has returned
AnyCollected(outcomes) ==
    outcomes = <<>> \/ \E k \in DOMAIN outcomes : outcomes[k].kind # "pending"

\* line 196: collect() returns when every task of the iterator has returned
AllCollected(outcomes) ==
    \A k \in DOMAIN outcomes : outcomes[k].kind # "pending"

\* compress_all_streams, lines 196-212, and the `?` of line 60
ApplyUpdates ==
    /\ call.pc = "parallel"
    /\ AllCollected(call.outcomes)
    /\ call' = IF CoordinatorOk(call.outcomes)
               THEN [call EXCEPT !.pc = "strip",
                        !.doc = ApplyReplacements(call.doc, call.work,
                                                  call.outcomes, 1)]
               ELSE [call EXCEPT !.pc = "done",
                        !.result = [NoOutput EXCEPT !.kind = "err",
                                       !.err = "stream compression failed"]]
    /\ Frame

\* lines 62-74
Strip ==
    /\ call.pc = "strip"
    /\ call' = [call EXCEPT !.pc = "readenv",
                            !.doc = StripMetadata(call.doc),
                            !.trace = Append(@, "StripMetadata")]
    /\ Frame

\* lines 77-83: the round setting is read from the process environment
ReadRounds ==
    /\ call.pc = "readenv"
    /\ call' = [call EXCEPT !.pc = "rounds", !.envRead = env,
                            !.budget = RoundBudget(env)]
    /\ Frame

\* a plausible slip: the loop bound read from the environment at each test
LoopLimitRereadsEnv == RoundBudget(env)

\* line 84: the range 0..compression_rounds is fixed when the loop starts
LoopLimit == call.budget

\* lines 84-89: one compression round
Round ==
    /\ call.pc = "rounds" /\ call.rounds < LoopLimit
    /\ call' = [call EXCEPT !.rounds = @ + 1,
                            !.doc = CompactRound(call.doc, call.root),
                            !.trace = Append(@, "CompactRound")]
    /\ Frame

\* lines 91-96: the loop is over, final cleanup
Final ==
    /\ call.pc = "rounds" /\ ~(call.rounds < LoopLimit)
    /\ call' = [call EXCEPT !.pc = "save",
                            !.doc = FinalCleanup(call.doc, call.root),
                            !.trace = Append(@, "FinalCompact")]
    /\ Frame

\* lines 98-105: doc.save_to, `?` returns its error
Save ==
    /\ call.pc = "save"
    /\ call' = [call EXCEPT !.pc = "done",
                   !.trace = Append(@, "Serialize"),
                   !.result = IF call.input.saveFails
                              THEN [NoOutput EXCEPT !.kind = "err",
                                                    !.err = "Failed to save"]
                              ELSE [kind |-> "ok", err |-> "",
                                    doc |-> call.doc, root |-> call.root]]
    /\ Frame

\* another thread of the process sets or removes the variable
EnvChange(v) ==
    /\ v \in envWriters /\ v # env
    /\ ~(call.pc = "done" /\ callsLeft = 0)
    /\ env' = v
    /\ UNCHANGED <<qm, ds, im, envWriters, callsLeft, call, prev, par, lay, api, gui>>

\* the process invokes compress_pdf_bytes again with the same arguments
NextCall ==
    /\ call.pc = "done" /\ callsLeft > 0
    /\ prev' = Summary(call)
    /\ call' = NewCall(call.input, call.level)
    /\ callsLeft' = callsLeft - 1
    /\ UNCHANGED <<qm, ds, im, env, envWriters, par, lay, api, gui>>

(***************************************************************************)
(* The inputs explored.  A document is a page tree: 1 the Catalog (the     *)
(* trailer's Root), 2 the Pages node, 3 a Page, 4 and 5 two streams, 6 an  *)
(* optional sixth object.  Encoder outcomes are attributes of a stream:    *)
(* deflLen the size its deflated content has (0: the encoder fails),       *)
(* jpegLen the size of its JPEG encoding (0: the encoder fails).           *)
(***************************************************************************)
RawImageLens == {10, 20, 30, 40}

GenericVariants ==
    {MkStream("None", FALSE, "None", 40, TRUE, 0, d, 100 + d) : d \in {0, 12, 30, 40, 50}}
    \cup {MkStream("None", FALSE, "None", 0, TRUE, 0, 8, 2)}
    \cup {MkStream("None", FALSE, "FlateDecode", 40, i, IF i THEN 60 ELSE 0, d,
                   IF i THEN 200 + d ELSE 300 + d) :
             i \in BOOLEAN, d \in {0, 12, 40, 50}}
    \cup {MkStream("None", FALSE, "FlateDecode", 0, FALSE, 0, 8, 2)}
    \cup {[MkStream("None", FALSE, "ASCIIHexDecode", 40, FALSE, 0, 0, 400 + a)
               EXCEPT !.asIsLen = a] : a \in {22, 40, 45}}
    \cup {[MkStream("None", FALSE, "FlateDecode", 40, TRUE, 60, 50, 500)
               EXCEPT !.asIsLen = 30]}
    \cup {[MkStream("None", FALSE, "FlateDecode", 40, TRUE, 60, d, 700 + d)
               EXCEPT !.predictor = TRUE, !.coding = <<"zlib", "png">>] :
             d \in {12, 50}}
    \cup {[MkStream("None", FALSE, "None", 40, TRUE, 0, d, 800 + d)
               EXCEPT !.predictor = TRUE] : d \in {12, 50}}

ImageVariants ==
    {MkImage("None", TRUE, 8, n, TRUE, 0, j, 1000 + 100 * n + j) :
        n \in RawImageLens, j \in {0, 9, 10, 20, 30, 40, 45}}
    \cup {MkImage("FlateDecode", TRUE, 8, 25, TRUE, r, j, 6000 + 100 * r + j) :
             r \in {20, 30}, j \in {9, 25, 26}}
    \cup {MkImage("FlateDecode", TRUE, 8, 25, FALSE, 0, 9, 5),
          MkImage("LZWDecode", TRUE, 8, 25, FALSE, 0, 9, 7),
          MkImage("DCTDecode", TRUE, 8, 30, FALSE, 0, 9, 6),
          MkImage("None", FALSE, 8, 30, TRUE, 0, 9, 8),
          MkImage("None", TRUE, 1, 30, TRUE, 0, 9, 9),
          MkImage("DCTDecode", FALSE, 8, 30, FALSE, 0, 9, 11),
          [MkImage("None", TRUE, 8, 30, TRUE, 0, 30, 10)
              EXCEPT !.deflLen = 10, !.asIsLen = 10]}
    \cup {[MkImage("None", TRUE, 8, 10, TRUE, 0, 9, 14000) EXCEPT !.widthHigh = 1],
          [MkImage("None", TRUE, 8, 10, TRUE, 0, 9, 14001) EXCEPT !.heightHigh = 1],
          [MkImage("None", TRUE, 8, 3000000, TRUE, 0, 9, 14002)
              EXCEPT !.width = 3000, !.height = 1000],
          [MkImage("None", TRUE, 8, 1800000, TRUE, 0, 9, 14003)
              EXCEPT !.width = 600, !.height = 1000]}
    \cup {[MkImage("None", TRUE, b, 30, TRUE, 0, 9, 13000 + 100 * b + d)
               EXCEPT !.deflLen = d, !.asIsLen = d] :
             b \in {1, 16}, d \in {10, 20, 30}}
    \cup {[MkImage(f, TRUE, 8, n, i, r, 9,
                    (IF f = "DCTDecode" THEN 20000 ELSE 12000)
                    + (IF i THEN 0 ELSE 4000) + 100 * n + r)
               EXCEPT !.filterArray = TRUE] :
             f \in {"FlateDecode", "DCTDecode"}, n \in {10, 25},
             i \in BOOLEAN, r \in {20, 30}}

StreamVariants == GenericVariants \cup ImageVariants

\* the second stream of a document
SecondStreams ==
    {MkStream("None", FALSE, "None", 40, TRUE, 0, 12, 112),
     MkStream("None", FALSE, "None", 0, TRUE, 0, 8, 2),
     MkStream("Metadata", FALSE, "None", 40, TRUE, 0, 30, 130),
     MkImage("None", TRUE, 8, 30, TRUE, 0, 0, 4000),
     MkImage("None", TRUE, 8, 30, TRUE, 0, 9, 4009)}

SixthObjects == {"none", "metadata", "orphanMetadata", "page", "orphan", "copy"}

Document(s4, s5, ref5, sixth) ==
    [id \in (1..5) \cup (IF sixth = "none" THEN {} ELSE {6}) |->
        CASE id = 1 -> MkDict("Catalog",
                              {2} \cup (IF sixth = "metadata" THEN {6} ELSE {}))
          [] id = 2 -> MkDict("Pages",
                              {3} \cup (IF sixth = "page" THEN {6} ELSE {}))
          [] id = 3 -> MkDict("Page", {2, 4} \cup (IF ref5 THEN {5} ELSE {})
                                      \cup (IF sixth = "copy" THEN {6} ELSE {}))
          [] id = 4 -> s4
          [] id = 5 -> s5
          [] OTHER -> CASE sixth = "page" -> MkDict("Page", {2, 5})
                        [] sixth = "copy" -> s4
                        [] sixth \in {"metadata", "orphanMetadata"} ->
                               MkDict("Metadata", {})
                        [] OTHER -> MkDict("None", {})]

Parsed(doc, saveFails) ==
    [parses |-> TRUE, empty |-> FALSE, saveFails |-> saveFails, doc |-> doc,
     root |-> 1]

\* bytes the container library cannot parse; the empty input is one of them
Unparsable(empty) ==
    [parses |-> FALSE, empty |-> empty, saveFails |-> FALSE, doc |-> EmptyDoc,
     root |-> 0]

PlainDocument ==
    Document(MkStream("None", FALSE, "None", 40, TRUE, 0, 12, 112),
             MkImage("None", TRUE, 8, 30, TRUE, 0, 9, 4009), TRUE, "none")

EmptyStreamDocument ==
    Document(MkStream("None", FALSE, "None", 40, TRUE, 0, 12, 112),
             MkStream("None", FALSE, "None", 0, TRUE, 0, 8, 2), TRUE, "metadata")

\* texts of PDF_COMPRESSION_ROUNDS
SettingTexts ==
    {<<>>, <<"0">>, <<"1">>, <<"2">>, <<"3">>, <<"4">>, <<"5">>, <<"6">>,
     <<"9">>, <<"0", "4">>, <<"1", "0">>, <<"+", "3">>, <<"+">>, <<"-", "1">>,
     <<" ", "3">>, <<"3", " ">>, <<"a">>, <<"3", ".", "0">>,
     <<"4", "2", "9", "4", "9", "6", "7", "2", "9", "5">>,
     <<"4", "2", "9", "4", "9", "6", "7", "2", "9", "6">>}

Settings == {Absent} \cup {Setting(t) : t \in SettingTexts}

\* the values other threads write while two invocations run
WrittenSettings == {Absent, Setting(<<"0">>), Setting(<<"3">>)}

\* one invocation of every stream variant, the environment left alone
StreamInputs ==
    [input : {Parsed(Document(s4, s5, ref5, "none"), FALSE) :
                 s4 \in StreamVariants, s5 \in SecondStreams, ref5 \in BOOLEAN},
     level : {75}, env : {Absent}, writers : {{}}, calls : {0}]

\* one invocation of every document shape
ShapeInputs ==
    [input : {Parsed(Document(s4, s5, ref5, sixth), FALSE) :
                 s4 \in {MkStream("None", FALSE, "None", 40, TRUE, 0, 12, 112),
                         MkStream("None", FALSE, "None", 0, TRUE, 0, 8, 2)},
                 s5 \in SecondStreams, ref5 \in BOOLEAN,
                 sixth \in SixthObjects},
     level : {10}, env : {Absent, Setting(<<"1">>)}, writers : {{}},
     calls : {0}]

\* inputs that fail to load, and documents that fail to serialize
FailingInputs ==
    [input : {Unparsable(TRUE), Unparsable(FALSE),
              Parsed(PlainDocument, TRUE), Parsed(EmptyStreamDocument, TRUE)},
     level : {0, 75, 255}, env : {Absent}, writers : {{}}, calls : {0}]

\* one invocation under every setting
SettingInputs ==
    [input : {Parsed(PlainDocument, FALSE), Parsed(EmptyStreamDocument, FALSE)},
     level : {75}, env : Settings, writers : {{}}, calls : {0}]

\* two invocations with the same arguments while other threads write
RepeatedInputs ==
    [input : {Parsed(PlainDocument, FALSE), Parsed(EmptyStreamDocument, FALSE),
              Unparsable(TRUE)},
     level : {75}, env : WrittenSettings, writers : {{}, WrittenSettings},
     calls : {1}]

\* a stream of other bytes whose AHasher value is the same
Colliding(s) == [s EXCEPT !.content = 0 - s.hash]

\* documents whose streams are byte-identical, different, or different with
\* the same hash
DuplicateInputs ==
    [input : {Parsed(Document(s4, s5, TRUE, sixth), FALSE) :
                 s4 \in {MkStream("None", FALSE, "None", 40, TRUE, 0, 12, 112),
                         Colliding(MkStream("None", FALSE, "None", 40, TRUE, 0,
                                            30, 130))},
                 s5 \in {MkStream("None", FALSE, "None", 40, TRUE, 0, 12, 112),
                         MkStream("None", FALSE, "None", 40, TRUE, 0, 30, 130),
                         Colliding(MkStream("None", FALSE, "None", 40, TRUE, 0,
                                            12, 112))},
                 sixth \in {"none", "copy"}},
     level : {75}, env : {Absent}, writers : {{}}, calls : {0}]

Inputs ==
    StreamInputs \cup ShapeInputs \cup FailingInputs \cup SettingInputs
    \cup RepeatedInputs \cup DuplicateInputs

Init ==
    /\ Quiet
    /\ prev = NoCall
    /\ \E x \in Inputs :
          /\ env = x.env
          /\ envWriters = x.writers
          /\ callsLeft = x.calls
          /\ call = NewCall(x.input, x.level)

Next ==
    \/ Start
    \/ LoadOk
    \/ LoadFail
    \/ Dedup
    \/ Collect
    \/ \E k \in DOMAIN call.outcomes : ProcessTask(k)
    \/ ApplyUpdates
    \/ Strip
    \/ ReadRounds
    \/ Round
    \/ Final
    \/ Save
    \/ \E v \in WrittenSettings : EnvChange(v)
    \/ NextCall

Spec == Init /\ [][Next]_vars

(***************************************************************************)
(* Properties of the driver.                                               *)
(***************************************************************************)
Applied == call.pc = "strip"

\* C1: never grow per unit.  Whatever the image or the generic recompressor
\* returned for a stream, the task offers a replacement only when its
\* payload is strictly shorter than the payload the stream had when the
\* phase began, and right after the replacements are inserted every object
\* of the document is either exactly the object it was or a stream whose
\* payload is strictly shorter than before.
NeverGrowPerUnit ==
    /\ call.pc \in {"parallel", "strip"} =>
          \A k \in DOMAIN call.outcomes :
             call.outcomes[k].kind = "replace" =>
                call.outcomes[k].stream.len < call.before[call.work[k].id].len
    /\ Applied =>
          /\ DOMAIN call.doc = DOMAIN call.before
          /\ \A id \in DOMAIN call.before :
                call.doc[id] # call.before[id] =>
                   /\ IsStream(call.before[id])
                   /\ call.doc[id].len < call.before[id].len

\* one stream was replaced by a shorter payload while an image whose JPEG
\* encoding came out exactly as long as its samples was left alone
NeverGrowPerUnitWitness ==
    /\ Applied
    /\ call.doc[5] # call.before[5]
    /\ call.before[4].image /\ call.before[4].jpegLen = call.before[4].len
    /\ call.outcomes[1].kind = "keep"
    /\ call.doc[4] = call.before[4]

Done == call.pc = "done"

RoundTrace(n) == [i \in 1..n |-> "CompactRound"]

\* C2: the call returns an error exactly when the input does not parse
\* (the empty input included) or the final serialization fails.  Otherwise
\* every stream was processed, whatever the image path rejected or the
\* size gate kept, every later phase ran, and the call returns Ok.
OnlyLoadAndSaveFail ==
    Done =>
       /\ call.result.kind \in {"ok", "err"}
       /\ call.result.kind = "err" <=>
             ~call.input.parses \/ call.input.saveFails
       /\ call.input.empty => call.result.kind = "err"
       /\ call.input.parses =>
             /\ \A k \in DOMAIN call.outcomes :
                   call.outcomes[k].kind \in {"replace", "keep", "reject"}
             /\ call.trace = <<"Start", "Dedup", "CompressStreams",
                               "StripMetadata">>
                             \o RoundTrace(call.rounds)
                             \o <<"FinalCompact", "Serialize">>

\* a call that returned Ok although one image failed to encode and another
\* stream was kept because its recompression was not smaller
OnlyLoadAndSaveFailWitness ==
    /\ Done /\ call.result.kind = "ok"
    /\ \E k \in DOMAIN call.outcomes :
          /\ call.outcomes[k].kind = "reject"
          /\ call.outcomes[k].why = "Image encoding failed"
    /\ \E k \in DOMAIN call.outcomes : call.outcomes[k].kind = "keep"

\* the pages of a document: the Page objects reachable from its root
PagesOf(doc, root) == {id \in Reachable(doc, root) : doc[id].type = "Page"}

\* C3: validity.  From the moment a document is loaded to the returned
\* output, the root is present, the pages reachable from the root are the
\* pages that were reachable in the input, each of them the same object,
\* so the page count is unchanged.
StructurePreserved ==
    LET given == call.input.doc
        holds(doc) ==
            /\ call.root \in DOMAIN doc
            /\ doc[call.root].type = given[call.root].type
            /\ PagesOf(doc, call.root) = PagesOf(given, call.input.root)
            /\ \A id \in PagesOf(doc, call.root) :
                  doc[id].type = given[id].type
    IN  /\ call.pc \in {"dedup", "collect", "parallel", "strip", "readenv",
                        "rounds", "save"} => holds(call.doc)
        /\ Done /\ call.result.kind = "ok" =>
              /\ call.result.root = call.input.root
              /\ holds(call.result.doc)

\* a two-page document returned with both pages and without the empty
\* stream its pages referred to
StructurePreservedWitness ==
    /\ Done /\ call.result.kind = "ok"
    /\ PagesOf(call.result.doc, call.result.root) = {3, 6}
    /\ 5 \in DOMAIN call.input.doc
    /\ 5 \notin DOMAIN call.result.doc

(***************************************************************************)
(* The round setting as a reader of its text sees it.                      *)
(***************************************************************************)
DecimalDigits == {"0", "1", "2", "3", "4", "5", "6", "7", "8", "9"}

\* the digits of a text after its optional sign
Unsigned(text) ==
    IF Len(text) > 0 /\ text[1] = "+" THEN SubSeq(text, 2, Len(text)) ELSE text

RECURSIVE Significant(_)
Significant(digits) ==
    IF Len(digits) > 0 /\ digits[1] = "0" THEN Significant(Tail(digits))
    ELSE digits

U32Max == <<"4", "2", "9", "4", "9", "6", "7", "2", "9", "5">>

\* digit sequences of equal length compare like the numbers they write
RECURSIVE AtMost(_, _)
AtMost(a, b) ==
    IF Len(a) = 0 THEN TRUE
    ELSE IF a[1] # b[1] THEN DigitValue(a[1]) < DigitValue(b[1])
    ELSE AtMost(Tail(a), Tail(b))

\* the text writes an unsigned integer of the width the code parses
ParsesAsUnsigned(text) ==
    LET digits == Unsigned(text)
        sig == Significant(digits)
    IN  /\ Len(digits) > 0
        /\ \A i \in 1..Len(digits) : digits[i] \in DecimalDigits
        /\ Len(sig) < Len(U32Max) \/ (Len(sig) = Len(U32Max) /\ AtMost(sig, U32Max))

DefaultRounds == 2

MaxRounds == 5

\* min(v, MaxRounds) for the integer v a text writes
CappedValue(text) ==
    LET sig == Significant(Unsigned(text))
    IN  IF Len(sig) = 0 THEN 0
        ELSE IF Len(sig) = 1 THEN Min2(DigitValue(sig[1]), MaxRounds)
        ELSE MaxRounds

ExpectedRounds(setting) ==
    IF setting.set /\ ParsesAsUnsigned(setting.text)
    THEN CappedValue(setting.text) ELSE DefaultRounds

\* C10: round budget.  The loop never runs more than five rounds; once it
\* is over, the number of rounds executed is 2 when the setting read was
\* absent or does not parse as an unsigned 32-bit integer and min(v, 5)
\* when it parses as v; the recompressors were invoked once per stream of
\* the loaded document, by the parallel phase, and by no round.
RoundBudgetRespected ==
    /\ call.rounds \in 0..MaxRounds
    /\ call.pc = "rounds" => call.rounds <= ExpectedRounds(call.envRead)
    /\ call.pc \in {"rounds", "save"} \/ (Done /\ call.input.parses) =>
          call.recompressCalls = Cardinality(Streams(call.input.doc))
    /\ call.pc = "save" \/ (Done /\ call.input.parses) =>
          call.rounds = ExpectedRounds(call.envRead)

\* a call that read the setting 9 and returned after five rounds
RoundBudgetRespectedWitness ==
    /\ Done /\ call.result.kind = "ok"
    /\ call.envRead = Setting(<<"9">>)
    /\ call.rounds = 5
    /\ call.recompressCalls = 2

Repeated == Done /\ prev.result.kind # "none"

SameRun ==
    /\ prev.rounds = call.rounds
    /\ prev.trace = call.trace
    /\ prev.result = call.result

Deduplicated == call.pc \in {"collect", "parallel", "strip", "readenv", "rounds",
                            "save"}

\* the streams whose stored bytes equal those of a stream visited earlier
ByteDuplicates(doc) ==
    {id \in Streams(doc) :
        \E other \in Streams(doc) :
            other < id /\ doc[other].content = doc[id].content}

\* C11: the deduplicator's count.  The number remove_duplicate_objects
\* returns is the number of streams whose payload is byte-for-byte the
\* payload of a stream visited earlier, so streams with different payloads
\* never count, equal hashes or not, and two identical payloads count.
DedupCountsByteIdentical ==
    Deduplicated =>
        call.removed = Cardinality(ByteDuplicates(call.input.doc))

\* the phase a step of the driver enters and the label it records
Enters(pc, label) ==
    /\ call'.pc = pc
    /\ call'.trace = IF label = "" THEN call.trace ELSE Append(call.trace, label)

\* what one step of an invocation may do, phase by phase
PhaseStep ==
    CASE call.pc = "start" -> Enters("load", "Start")
      [] call.pc = "load" ->
            \/ Enters("dedup", "")
            \/ Enters("done", "") /\ call'.result.kind = "err"
      [] call.pc = "dedup" -> Enters("collect", "Dedup")
      [] call.pc = "collect" -> Enters("parallel", "CompressStreams")
      [] call.pc = "parallel" ->
            \/ Enters("parallel", "") /\ call'.doc = call.doc
            \/ Enters("strip", "")
      [] call.pc = "strip" -> Enters("readenv", "StripMetadata")
      [] call.pc = "readenv" ->
            Enters("rounds", "") /\ call'.rounds = 0 /\ call'.doc = call.doc
      [] call.pc = "rounds" ->
            \/ /\ Enters("rounds", "CompactRound")
               /\ call'.rounds = call.rounds + 1
               /\ call'.rounds <= call.budget
               /\ call'.doc = DeleteZeroLengthStreams(
                                 PruneObjects(LibCompress(call.doc), call.root))
            \/ /\ Enters("save", "FinalCompact")
               /\ call'.rounds = call.rounds
               /\ call.rounds = call.budget
               /\ call'.doc = PruneObjects(LibCompress(call.doc), call.root)
      [] call.pc = "save" ->
            /\ Enters("done", "Serialize")
            /\ call'.result.kind = "ok" => call'.result.doc = call.doc
      [] OTHER -> call'.pc = "start" /\ call'.trace = <<>>

\* C12: the order of the driver's phases.  Every step of an invocation
\* moves from its phase to the next one of Start, Dedup, CompressStreams,
\* StripMetadata, the rounds, FinalCompact, serialize, Done; the only phase
\* entered again is a round, at most the budget's number of times; a round
\* compacts, prunes and deletes zero-length streams, in that order, and the
\* final compaction compacts and prunes and nothing more; what is
\* serialized is the document the final compaction left.
DriverOrder == [][call' # call => PhaseStep]_vars

\* a call that returned after exactly its two default rounds
DriverOrderWitness ==
    /\ Done /\ call.result.kind = "ok"
    /\ call.envRead = Absent
    /\ call.trace = <<"Start", "Dedup", "CompressStreams", "StripMetadata",
                      "CompactRound", "CompactRound", "FinalCompact",
                      "Serialize">>
    /\ 5 \notin DOMAIN call.result.doc

\* the tasks of the parallel phase that have returned
Returned == {k \in DOMAIN call.outcomes : call.outcomes[k].kind # "pending"}

\* C13: coordinator ordering.  Each task's copy is the stream the document
\* held when the phase began; while tasks are outstanding the document is
\* the one the phase began with, and a task's step fills only its own slot
\* with a value computed from its own copy; the document changes in one
\* step, taken when every task has returned, that inserts exactly the
\* accepted replacements.
CoordinatorOrdering ==
    /\ call.pc \in {"parallel", "strip"} =>
          /\ \A k \in DOMAIN call.work :
                call.work[k].stream = call.before[call.work[k].id]
          /\ \A k \in Returned :
                call.outcomes[k] = TaskOutcome(call.work[k], call.quality)
    /\ call.pc = "parallel" => call.doc = call.before
    /\ Applied =>
          /\ Returned = DOMAIN call.outcomes
          /\ \A k \in DOMAIN call.work :
                call.doc[call.work[k].id] =
                   IF call.outcomes[k].kind = "replace"
                   THEN call.outcomes[k].stream ELSE call.work[k].stream

\* two tasks, the later one returned first, the document still untouched
CoordinatorOrderingWitness ==
    /\ call.pc = "parallel"
    /\ Len(call.work) = 2
    /\ Returned = {2}
    /\ call.outcomes[2].kind = "replace"
    /\ call.doc = call.before

(***************************************************************************)
(* The parallel phase of compress_all_streams, lines 152-210, statement by *)
(* statement.  Each task of the rayon iterator runs on a thread of the     *)
(* pool; the three counters are Mutex values the tasks share.  `at` is a   *)
(* task's position: queued, waiting for a counter's lock, holding it,      *)
(* computing its stream, returned.  A lock is held by a task, by the       *)
(* calling thread (Caller) or by nobody (Free).                            *)
(***************************************************************************)
Free == 0

Counters == {"image_count", "total_saved", "compressed_count"}

Position(pos, lock) == [pos |-> pos, lock |-> lock]

\* a plausible slip: the guard kept alive instead of dropped
UnlockedNever(locks, lock) == locks

\* the MutexGuard of `*counter.lock().unwrap() += n` is a temporary dropped
\* at the end of the statement
Unlocked(locks, lock) == [locks EXCEPT ![lock] = Free]

\* where a task goes after the statement on a counter
AfterCounter(lock) ==
    CASE lock = "image_count" -> Position("compress", "")
      [] lock = "total_saved" -> Position("want", "compressed_count")
      [] OTHER -> Position("returned", "")

ParOther ==
    /\ qm = QmIdle /\ ds = DsIdle /\ im = ImIdle
    /\ env = Absent /\ envWriters = {} /\ callsLeft = 0
    /\ call = [pc |-> "idle"] /\ prev = [pc |-> "idle"]
    /\ lay = [pc |-> "idle"]
    /\ api = [pc |-> "idle"] /\ gui = [pc |-> "idle"]

ParFrame ==
    UNCHANGED <<qm, ds, im, env, envWriters, callsLeft, call, prev, lay, api, gui>>

\* the streams of the documents whose parallel phase is explored
ParStreams ==
    {MkImage("None", TRUE, 8, 30, TRUE, 0, 9, 4009),
     MkImage("DCTDecode", TRUE, 8, 30, FALSE, 0, 9, 6),
     MkStream("None", FALSE, "None", 40, TRUE, 0, 12, 112),
     MkStream("None", FALSE, "None", 40, TRUE, 0, 50, 150)}

PoolThreads == 2

\* lines 138-154: the work list is built, the counters are zero
ParInit ==
    /\ ParOther
    /\ \E s4 \in ParStreams, s5 \in ParStreams, sixth \in {"none", "copy"},
          threads \in 1..PoolThreads :
          LET doc == Document(s4, s5, TRUE, sixth)
              work == WorkList(doc, Streams(doc))
          IN  par = [pc |-> "running", quality |-> 50, work |-> work,
                     threads |-> threads,
                     at |-> [k \in 1..Len(work) |-> Position("queued", "")],
                     outcomes |-> [k \in 1..Len(work) |-> Pending],
                     locks |-> [c \in Counters |-> Free],
                     count |-> [c \in Counters |-> 0]]

Busy == {k \in DOMAIN par.at : par.at[k].pos \notin {"queued", "returned"}}

\* a pool thread takes the next item; line 161
TaskBegin(k) ==
    /\ par.pc = "running"
    /\ par.at[k].pos = "queued"
    /\ Cardinality(Busy) < par.threads
    /\ par' = [par EXCEPT !.at[k] = IF par.work[k].isImage
                                     THEN Position("want", "image_count")
                                     ELSE Position("compress", "")]
    /\ ParFrame

\* counter.lock() returns: lines 162, 184, 185
Acquire(k) ==
    /\ par.pc = "running"
    /\ par.at[k].pos = "want"
    /\ par.locks[par.at[k].lock] = Free
    /\ par' = [par EXCEPT !.locks[par.at[k].lock] = k,
                          !.at[k] = Position("has", par.at[k].lock)]
    /\ ParFrame

\* the counter is updated and the guard dropped: lines 162, 184, 185
Release(k) ==
    /\ par.pc = "running"
    /\ par.at[k].pos = "has"
    /\ LET lock == par.at[k].lock
           n == IF lock = "total_saved" THEN par.outcomes[k].saved ELSE 1
       IN  par' = [par EXCEPT !.count[lock] = @ + n,
                              !.locks = Unlocked(par.locks, lock),
                              !.at[k] = AfterCounter(lock)]
    /\ ParFrame

\* lines 182-194: an accepted replacement goes on to the counters
Compressed(k, o) ==
    par' = [par EXCEPT !.outcomes[k] = o,
                       !.at[k] = IF o.kind = "replace"
                                 THEN Position("want", "total_saved")
                                 ELSE Position("returned", "")]

\* lines 166-194: the stream is recompressed and the size gate decides
Compress(k) ==
    /\ par.pc = "running"
    /\ par.at[k].pos = "compress"
    /\ Compressed(k, TaskOutcome(par.work[k], par.quality))
    /\ ParFrame

\* lines 196-210: collect() returns and the caller locks each counter to
\* read it
ParCollect ==
    /\ par.pc = "running"
    /\ \A k \in DOMAIN par.at : par.at[k].pos = "returned"
    /\ \A c \in Counters : par.locks[c] = Free
    /\ par' = [par EXCEPT !.pc = "collected"]
    /\ ParFrame

ParNext ==
    \/ \E k \in DOMAIN par.at : TaskBegin(k)
    \/ \E k \in DOMAIN par.at : Acquire(k)
    \/ \E k \in DOMAIN par.at : Release(k)
    \/ \E k \in DOMAIN par.at : Compress(k)
    \/ ParCollect

SpecParallel == ParInit /\ [][ParNext]_vars

\* the pool's threads are operating-system threads: a thread that can take
\* a step eventually takes one
SpecParallelFair == SpecParallel /\ WF_vars(ParNext)

Held(k) == {c \in Counters : par.locks[c] = k}

\* C14: the summary counters.  While the tasks of the parallel phase run,
\* no counter's lock is held by any of them: the counts are per-task values
\* reduced when the results are collected.
CountersWithoutSharedLock ==
    par.pc = "running" => \A c \in Counters : par.locks[c] = Free

\* C15: the parallel phase terminates.  A task never holds more than one
\* counter lock, holds none while it waits for one or recompresses its
\* stream, and under every interleaving of the pool's threads every task
\* returns and the results are collected.
ParallelPhaseTerminates ==
    /\ [](\A k \in DOMAIN par.at :
             /\ Cardinality(Held(k)) <= 1
             /\ par.at[k].pos # "has" => Held(k) = {})
    /\ <>(par.pc = "collected")

\* one task waits for the counter another task holds
ParallelPhaseTerminatesWitness ==
    /\ par.pc = "running"
    /\ \E k, j \in DOMAIN par.at :
          /\ par.at[k].pos = "has" /\ par.at[j].pos = "want"
          /\ par.at[k].lock = par.at[j].lock
          /\ par.locks[par.at[k].lock] = k

\* the images of a document whose Filter entry is the name DCTDecode
TerminalLossy(doc) ==
    {id \in Streams(doc) :
        doc[id].image /\ doc[id].filter = "DCTDecode" /\ ~doc[id].filterArray}

EncodedNeverRaw ==
    call.pc \in {"parallel", "strip"} =>
        \A k \in Returned :
            LET s == call.work[k].stream
            IN  s.image /\ s.filter # "None" /\ call.outcomes[k].kind # "reject" =>
                   /\ s.inflates
                   /\ Components(s.width, s.height, s.rawLen) # 0

(***************************************************************************)
(* The layout inference of compress_image_stream, lines 285-364, applied   *)
(* to declared dimensions of any size.                                     *)
(***************************************************************************)
LayOther ==
    /\ qm = QmIdle /\ ds = DsIdle /\ im = ImIdle
    /\ env = Absent /\ envWriters = {} /\ callsLeft = 0
    /\ call = [pc |-> "idle"] /\ prev = [pc |-> "idle"]
    /\ par = [pc |-> "idle"]
    /\ api = [pc |-> "idle"] /\ gui = [pc |-> "idle"]

\* declared values: 0, 1, 2, 5, 2^16, 2^16 + 2, 2^30, 2^32 + 2, 2^32 + 5 and
\* 2 - 2^32
DeclaredValues ==
    {Declared(0, 0, 0), Declared(0, 0, 1), Declared(0, 0, 2), Declared(0, 0, 5),
     Declared(0, 1, 0), Declared(0, 1, 2), Declared(0, 16384, 0),
     Declared(1, 0, 2), Declared(1, 0, 5), Declared(0 - 1, 0, 2)}

SampleLengths == {0, 4, 10, 20, 30, 40, 41}

NoLayout == [kind |-> "none", components |-> 0]

\* a build with overflow checks or without, any declared dimensions, any
\* sample length
LayInit ==
    /\ LayOther
    /\ \E w \in DeclaredValues, h \in DeclaredValues, n \in SampleLengths,
          checks \in BOOLEAN :
          lay = [pc |-> "declared", w |-> w, h |-> h, n |-> n,
                 checks |-> checks, result |-> NoLayout]

LayInfer ==
    /\ lay.pc = "declared"
    /\ lay' = [lay EXCEPT !.pc = "inferred",
                          !.result = InferLayout(AsU32(lay.w), AsU32(lay.h),
                                                 lay.n, lay.checks)]
    /\ UNCHANGED <<qm, ds, im, env, envWriters, callsLeft, call, prev, par, api,
                   gui>>

LayNext == LayInfer

SpecLayout == LayInit /\ [][LayNext]_vars

IsZero(d) == d.high = 0 /\ d.hi = 0 /\ d.lo = 0

Below2To16(d) == d.high = 0 /\ d.hi = 0

\* n = w * h * c for the declared integers w and h, n being below 2^16: a
\* product with a zero factor is zero, a product of factors of opposite
\* sign is negative, and a product with a factor of magnitude 2^16 or more
\* and no zero factor has magnitude 2^16 or more
TrueProductIs(w, h, c, n) ==
    IF IsZero(w) \/ IsZero(h) THEN n = 0
    ELSE /\ Below2To16(w) /\ Below2To16(h)
         /\ w.lo * h.lo * c = n

\* C17: layout inference by exact arithmetic.  Whatever Width w, Height h
\* and sample length n, the image path never aborts; it infers c components
\* only if n = w * h * c for the integers declared, and rejects when n is
\* none of w * h, w * h * 3, w * h * 4.
ExactLayout ==
    lay.pc = "inferred" =>
        /\ lay.result.kind \in {"layout", "reject"}
        /\ lay.result.kind = "layout" =>
              TrueProductIs(lay.w, lay.h, lay.result.components, lay.n)
        /\ (\A c \in {1, 3, 4} : ~TrueProductIs(lay.w, lay.h, c, lay.n)) =>
              lay.result.kind = "reject"

\* the generic recompressor shrinks a filtered stream by inverting its
\* filter and deflating the result
ShrinksDecoded(s) == s.inflates /\ s.deflLen # 0 /\ s.deflLen < s.len

\* deflating the stored bytes as they are gives a shorter payload
ShrinksAsIs(s) == s.asIsLen # 0 /\ s.asIsLen < s.len

\* C19: the generic recompressor's fallback.  For a stream that is not an
\* image and declares a filter, when inverting the filter fails or the
\* recompressed result is not smaller, the stored bytes are deflated as
\* they are and that result replaces the stream when it is strictly
\* smaller; the stream is kept only when that does not shrink either.
GenericFallback ==
    call.pc \in {"parallel", "strip"} =>
        \A k \in Returned :
            LET s == call.work[k].stream
            IN  ~s.image /\ s.filter # "None" /\ ~ShrinksDecoded(s) =>
                   IF ShrinksAsIs(s)
                   THEN /\ call.outcomes[k].kind = "replace"
                        /\ call.outcomes[k].stream.len = s.asIsLen
                   ELSE call.outcomes[k].kind = "keep"

\* filters only image decoders understand
ImageOnlyFilters == {"DCTDecode", "JPXDecode", "CCITTFaxDecode", "JBIG2Decode"}

\* C20: images that are not 8-bit.  An image whose BitsPerComponent is not
\* 8 is never given a JPEG payload; when its filter is not an image-only
\* one it is handled as a generic stream, so after the replacements are
\* applied it is the generic recompressor's result when that is strictly
\* smaller, and the stream it was otherwise.
NonEightBitFallsThrough ==
    Applied =>
        \A id \in Streams(call.before) :
            LET s == call.before[id]
                generic == CompressGenericStream(s)
            IN  s.image /\ s.bpc # 8 =>
                   call.doc[id] =
                      IF s.filter \notin ImageOnlyFilters /\ generic.len < s.len
                      THEN generic ELSE s

Stripped == call.pc = "readenv"

\* the document the metadata-stripping step was given
BeforeStrip == ApplyReplacements(call.before, call.work, call.outcomes, 1)

\* C21: StripMetadata.  Right after the step no object of the document,
\* plain dictionary or stream, declares the Type Metadata, and every object
\* that did not declare it is still there, unchanged.
MetadataStripped ==
    Stripped =>
        /\ \A id \in DOMAIN call.doc : call.doc[id].type # "Metadata"
        /\ \A id \in DOMAIN BeforeStrip :
              BeforeStrip[id].type # "Metadata" =>
                 id \in DOMAIN call.doc /\ call.doc[id] = BeforeStrip[id]

\* C22: the deduplicator's frame.  When remove_duplicate_objects has
\* returned, the document has the identifiers, the objects and the
\* references it was loaded with, whatever the count; and the objects the
\* stream phase starts from are those.
DedupLeavesDocument ==
    /\ call.pc = "collect" => call.doc = call.input.doc
    /\ call.pc = "parallel" => call.before = call.input.doc

\* three byte-identical streams counted as two duplicates, all three still
\* in the document
DedupLeavesDocumentWitness ==
    /\ call.pc = "collect"
    /\ call.removed = 2
    /\ {4, 5, 6} \subseteq Streams(call.doc)
    /\ call.doc[5].content = call.doc[4].content
    /\ call.doc = call.input.doc

\* the work items whose replacement was accepted
Replaced == {k \in Returned : call.outcomes[k].kind = "replace"}

\* C23: the dictionary of a replaced stream.  After the replacements are
\* applied every replaced stream declares the length of its new payload; a
\* replaced image declares the filter DCTDecode, the colour space
\* DeviceRGB and the width and height of the image that was encoded, the
\* downsampled ones when it was resized; a replaced generic stream declares
\* the filter FlateDecode.
ReplacedMetadataConsistent ==
    Applied =>
        \A k \in Replaced :
            LET old == call.work[k].stream
                new == call.doc[call.work[k].id]
                encoded == EmbeddedTarget(call.quality, old.width, old.height)
            IN  /\ new.length = new.len
                /\ ~new.filterArray
                /\ IF old.image
                   THEN /\ new.filter = "DCTDecode"
                        /\ new.colorSpace = "DeviceRGB"
                        /\ new.widthHigh = 0 /\ new.width = encoded.w
                        /\ new.heightHigh = 0 /\ new.height = encoded.h
                   ELSE new.filter = "FlateDecode"

\* C24: the frame of compress_all_streams.  After the call the document
\* has the identifiers it had; every object that is not a stream is the
\* same; every stream whose task kept or rejected it has its dictionary and
\* payload as they were; a stream differs only where a replacement was
\* accepted, and then it is that task's replacement.
StreamPhaseFrame ==
    Applied =>
        /\ DOMAIN call.doc = DOMAIN call.before
        /\ \A id \in DOMAIN call.before \ Streams(call.before) :
              call.doc[id] = call.before[id]
        /\ {call.work[k].id : k \in DOMAIN call.work} = Streams(call.before)
        /\ \A k \in DOMAIN call.work :
              call.doc[call.work[k].id] =
                 IF k \in Replaced THEN call.outcomes[k].stream
                 ELSE call.before[call.work[k].id]

\* one stream replaced, the other an image of unexpected size left as it was
StreamPhaseFrameWitness ==
    /\ Applied
    /\ Replaced = {2}
    /\ call.outcomes[1].kind = "reject"
    /\ call.outcomes[1].why = "Unexpected size"
    /\ call.doc[4] = call.before[4]
    /\ call.doc[5] # call.before[5]

(***************************************************************************)
(* sanitize_filename, api.rs lines 146-179.  A name is a sequence of runs, *)
(* a run being a character repeated count times, so that names around the  *)
(* 255 limit are explored.                                                 *)
(***************************************************************************)
Run(char, count) == [char |-> char, count |-> count]

\* char::is_alphanumeric: the Unicode Alphabetic and Numeric characters
IsAlphanumeric(c) == c \in {"a", "Z", "7", "é"}

\* char::is_whitespace, what str::trim removes
IsWhitespace(c) == c \in {" ", "\t"}

\* the bytes of a character in UTF-8
Utf8Len(c) == IF c = "é" THEN 2 ELSE 1

RECURSIVE ByteLen(_)
ByteLen(name) ==
    IF name = <<>> THEN 0
    ELSE Head(name).count * Utf8Len(Head(name).char) + ByteLen(Tail(name))

\* lines 152-157: everything before the last dot
StripExtension(name) ==
    LET dots == {i \in DOMAIN name : name[i].char = "."}
    IN  IF dots = {} THEN name
        ELSE LET last == CHOOSE i \in dots : \A j \in dots : j <= i
             IN  SubSeq(name, 1, last - 1)
                 \o (IF name[last].count > 1
                     THEN <<Run(".", name[last].count - 1)>> ELSE <<>>)

RECURSIVE TrimStart(_)
TrimStart(name) ==
    IF name # <<>> /\ IsWhitespace(Head(name).char) THEN TrimStart(Tail(name))
    ELSE name

RECURSIVE TrimEnd(_)
TrimEnd(name) ==
    IF name # <<>> /\ IsWhitespace(name[Len(name)].char)
    THEN TrimEnd(SubSeq(name, 1, Len(name) - 1))
    ELSE name

\* line 160: str::trim
Trim(name) == TrimEnd(TrimStart(name))

\* lines 163-166: the closure of filter
KeptChar(c) == IsAlphanumeric(c) \/ c = "-" \/ c = "_" \/ c = " "

KeepAllowed(name) == SelectSeq(name, LAMBDA r : KeptChar(r.char))

MaxFilenameLen == 255

sanitize_filename(name) ==
    LET sanitized == KeepAllowed(Trim(StripExtension(name)))
    IN  IF sanitized = <<>>
        THEN [ok |-> FALSE, err |-> "only alphanumeric, hyphens, underscores, and spaces allowed",
              value |-> <<>>]
        ELSE IF ByteLen(sanitized) > MaxFilenameLen
        THEN [ok |-> FALSE, err |-> "maximum 255 characters allowed",
              value |-> <<>>]
        ELSE [ok |-> TRUE, err |-> "", value |-> sanitized]

ApiOther ==
    /\ qm = QmIdle /\ ds = DsIdle /\ im = ImIdle
    /\ env = Absent /\ envWriters = {} /\ callsLeft = 0
    /\ call = [pc |-> "idle"] /\ prev = [pc |-> "idle"]
    /\ par = [pc |-> "idle"] /\ lay = [pc |-> "idle"] /\ gui = [pc |-> "idle"]

ApiFrame ==
    UNCHANGED <<qm, ds, im, env, envWriters, callsLeft, call, prev, par, lay, gui>>

NameChars == {"a", "7", "-", " ", ".", "!", "é"}

RunCounts == {1, 2, 255, 256}

Runs == {Run(c, n) : c \in NameChars, n \in RunCounts}

Names ==
    {<<>>} \cup {<<r>> : r \in Runs} \cup {<<r, t>> : r \in Runs, t \in Runs}
    \cup {<<r, t, u>> : r \in Runs, t \in {Run(c, 1) : c \in NameChars}, u \in Runs}

\* compress_file was sent the form field output_filename
FnInit ==
    /\ ApiOther
    /\ \E name \in Names :
          api = [pc |-> "filename", name |-> name,
                 result |-> [ok |-> FALSE, err |-> "", value |-> <<>>]]

\* api.rs lines 365-377: the custom filename is sanitized
FnSanitize ==
    /\ api.pc = "filename"
    /\ api' = [api EXCEPT !.pc = "sanitized",
                          !.result = sanitize_filename(api.name)]
    /\ ApiFrame

FnNext == FnSanitize

SpecFilename == FnInit /\ [][FnNext]_vars

RECURSIVE CharLen(_)
CharLen(name) ==
    IF name = <<>> THEN 0 ELSE Head(name).count + CharLen(Tail(name))

AsciiAllowed == {"a", "Z", "7", "-", "_", " "}

\* C25: sanitize_filename.  A name the function returns is not empty, has
\* at most 255 characters, contains no dot, neither starts nor ends with
\* whitespace, and is made of a-z, A-Z, 0-9, hyphen, underscore and space
\* only.
SanitizedNameSafe ==
    api.pc = "sanitized" /\ api.result.ok =>
        LET v == api.result.value
        IN  /\ v # <<>>
            /\ CharLen(v) \in 1..MaxFilenameLen
            /\ \A i \in DOMAIN v : v[i].char \in AsciiAllowed
            /\ ~IsWhitespace(v[1].char)
            /\ ~IsWhitespace(v[Len(v)].char)

(***************************************************************************)
(* The reduction percentage of compress_file, api.rs lines 392-416.  A u64 *)
(* is four 16-bit limbs, least significant first; an f64 holding a whole   *)
(* number is a sign and five limbs.                                        *)
(***************************************************************************)
U64(n) == <<n % Half, n \div Half, 0, 0>>

\* a - b on u64; borrow is set when b > a
SubU64(a, b) ==
    LET b1 == IF a[1] < b[1] THEN 1 ELSE 0
        b2 == IF a[2] < b[2] + b1 THEN 1 ELSE 0
        b3 == IF a[3] < b[3] + b2 THEN 1 ELSE 0
        b4 == IF a[4] < b[4] + b3 THEN 1 ELSE 0
    IN  [val |-> << (a[1] + Half - b[1]) % Half,
                    (a[2] + Half - b[2] - b1) % Half,
                    (a[3] + Half - b[3] - b2) % Half,
                    (a[4] + Half - b[4] - b3) % Half >>,
         borrow |-> b4 = 1]

F64Ulp == 2048

\* `as f64` of a u64: exact below 2^53, rounded to the nearest multiple of
\* 2^11, ties to even, from 2^63 on (the two ranges a difference of sizes
\* below 2^31 can fall in)
F64OfU64(x) ==
    IF x[4] < 32
    THEN [negative |-> FALSE, limbs |-> x \o <<0>>]
    ELSE LET low == x[1] % F64Ulp
             up  == low > F64Ulp \div 2
                    \/ (low = F64Ulp \div 2 /\ (x[1] \div F64Ulp) % 2 = 1)
             l1  == x[1] - low + (IF up THEN F64Ulp ELSE 0)
             c1  == l1 \div Half
             l2  == x[2] + c1
             c2  == l2 \div Half
             l3  == x[3] + c2
             c3  == l3 \div Half
             l4  == x[4] + c3
         IN  [negative |-> FALSE,
              limbs |-> <<l1 % Half, l2 % Half, l3 % Half, l4 % Half, l4 \div Half>>]

\* lines 393-397; the value is num / den * 100
Reduction(original_size, compressed_size) ==
    IF original_size > 0
    THEN [num |-> F64OfU64(SubU64(U64(original_size), U64(compressed_size)).val),
          den |-> original_size]
    ELSE [num |-> F64OfU64(U64(0)), den |-> 1]

SubtractionOverflows(original_size, compressed_size) ==
    original_size > 0 /\ SubU64(U64(original_size), U64(compressed_size)).borrow

FileSizes == {1, 2, 100, 1000, 1024, 1025, 65535, 65536, 100000}

NoResponse == [status |-> 0, body |-> 0, reduction |-> Reduction(0, 0)]

\* compress_pdf_bytes or compress_image_bytes returned compressed_data for a
\* body of original_size bytes; checks tells whether the build has integer
\* overflow checks
RdInit ==
    /\ ApiOther
    /\ \E o \in FileSizes, c \in FileSizes, checks \in BOOLEAN :
          api = [pc |-> "compressed", original_size |-> o, compressed_size |-> c,
                 checks |-> checks, response |-> NoResponse]

\* lines 392-416: the response with its headers
RdRespond ==
    /\ api.pc = "compressed"
    /\ ~(api.checks /\ SubtractionOverflows(api.original_size, api.compressed_size))
    /\ api' = [api EXCEPT !.pc = "responded",
                          !.response = [status |-> 200, body |-> api.compressed_size,
                                        reduction |-> Reduction(api.original_size,
                                                                api.compressed_size)]]
    /\ ApiFrame

\* line 394: `attempt to subtract with overflow` ends the handler
RdPanic ==
    /\ api.pc = "compressed"
    /\ api.checks
    /\ SubtractionOverflows(api.original_size, api.compressed_size)
    /\ api' = [api EXCEPT !.pc = "panicked"]
    /\ ApiFrame

RdNext == RdRespond \/ RdPanic

SpecReduction == RdInit /\ [][RdNext]_vars

\* the f64 that holds the whole number n or -n
WholeF64(negative, n) == [negative |-> negative, limbs |-> U64(n) \o <<0>>]

\* C26: reported reduction.  For every original and compressed size, the
\* larger output included, the handler answers 200 with the compressed data
\* and a reduction of (original - compressed) / original * 100, negative
\* when the file grew; it neither wraps around nor aborts.
ReductionSigned ==
    api.pc \in {"responded", "panicked"} =>
        /\ api.pc = "responded"
        /\ api.response.status = 200
        /\ api.response.body = api.compressed_size
        /\ api.response.reduction.den = api.original_size
        /\ api.response.reduction.num =
              IF api.compressed_size <= api.original_size
              THEN WholeF64(FALSE, api.original_size - api.compressed_size)
              ELSE WholeF64(TRUE, api.compressed_size - api.original_size)

(***************************************************************************)
(* The batch of the desktop application, main.rs: select_files (50-60),    *)
(* compress_files with its worker thread (101-119),                        *)
(* check_processing_results (121-141) and update (593-598).                *)
(***************************************************************************)
GuiOther ==
    /\ qm = QmIdle /\ ds = DsIdle /\ im = ImIdle
    /\ env = Absent /\ envWriters = {} /\ callsLeft = 0
    /\ call = [pc |-> "idle"] /\ prev = [pc |-> "idle"]
    /\ par = [pc |-> "idle"] /\ lay = [pc |-> "idle"] /\ api = [pc |-> "idle"]

GuiFrame ==
    UNCHANGED <<qm, ds, im, env, envWriters, callsLeft, call, prev, par, lay, api>>

\* what the file dialog can return
FileLists == {<<1>>, <<2>>, <<1, 2>>, <<2, 1>>, <<1, 2, 3>>}

\* compress_single_pdf returns a result for the file, success or not
CompressionResult(file, success) == [file_name |-> file, success |-> success]

\* PdfCompressor::default; todo is what the worker of the current channel
\* has left, batch the files compress_files handed to it
GuiInit ==
    /\ GuiOther
    /\ gui = [pc |-> "running", selected_files |-> <<>>, is_processing |-> FALSE,
              compression_results |-> <<>>, receiver |-> FALSE, channel |-> <<>>,
              todo |-> <<>>, batch |-> <<>>]

\* lines 50-60; the button is enabled at all times (line 608)
select_files(files) ==
    /\ gui' = [gui EXCEPT !.selected_files = files,
                          !.compression_results = <<>>]
    /\ GuiFrame

\* lines 101-119; a worker of an earlier batch only sends to a receiver
\* that was dropped
compress_files ==
    /\ ~(gui.selected_files = <<>> \/ gui.is_processing)
    /\ gui' = [gui EXCEPT !.is_processing = TRUE,
                          !.compression_results = <<>>,
                          !.receiver = TRUE,
                          !.channel = <<>>,
                          !.todo = gui.selected_files,
                          !.batch = gui.selected_files]
    /\ GuiFrame

\* lines 112-117: one iteration of the worker's loop; a send to a dropped
\* receiver fails and is ignored
WorkerSend ==
    /\ gui.todo # <<>>
    /\ \E success \in BOOLEAN :
          gui' = [gui EXCEPT
                    !.todo = Tail(gui.todo),
                    !.channel = IF gui.receiver
                                THEN Append(gui.channel,
                                            CompressionResult(Head(gui.todo), success))
                                ELSE gui.channel]
    /\ GuiFrame

\* lines 123-139: the while loop over try_recv
RECURSIVE Drain(_, _, _)
Drain(results, channel, selected) ==
    IF channel = <<>>
    THEN [results |-> results, channel |-> channel, done |-> FALSE]
    ELSE LET pushed == Append(results, Head(channel))
         IN  IF Len(pushed) >= selected
             THEN [results |-> pushed, channel |-> Tail(channel), done |-> TRUE]
             ELSE Drain(pushed, Tail(channel), selected)

\* lines 121-141
check_processing_results ==
    /\ gui.receiver
    /\ LET d == Drain(gui.compression_results, gui.channel, Len(gui.selected_files))
       IN  gui' = [gui EXCEPT
                     !.compression_results = d.results,
                     !.is_processing = IF d.done THEN FALSE ELSE gui.is_processing,
                     !.receiver = ~d.done,
                     !.channel = IF d.done THEN <<>> ELSE d.channel]
    /\ GuiFrame

\* lines 593-598
update ==
    /\ gui.is_processing
    /\ check_processing_results

GuiNext ==
    \/ \E files \in FileLists : select_files(files)
    \/ compress_files
    \/ WorkerSend
    \/ update

SpecGui == GuiInit /\ [][GuiNext]_vars

SpecGuiFair == SpecGui /\ WF_vars(WorkerSend) /\ WF_vars(update)

\* the results hold one result per file of the batch, in batch order
ResultsOf(results, batch) ==
    /\ Len(results) = Len(batch)
    /\ \A i \in DOMAIN batch : results[i].file_name = batch[i]

\* C27: GUI batch completion.  Once compress_files has started a batch,
\* is_processing eventually returns to false whatever the user does, and at
\* that moment compression_results holds exactly one result per file of the
\* started batch, in batch order.
BatchCompletes ==
    /\ gui.is_processing ~> ~gui.is_processing
    /\ [][gui.is_processing /\ ~gui'.is_processing
            => ResultsOf(gui'.compression_results, gui.batch)]_vars

(***************************************************************************)
(* auth_middleware, api.rs lines 69-131, in front of the routes of         *)
(* create_router, lines 20-29.  A text is a sequence of pieces, the piece  *)
(* "Bearer " being the seven characters of the prefix.                     *)
(***************************************************************************)
Pieces == {"Bearer ", "k", "x"}

Texts == {<<>>} \cup {<<a>> : a \in Pieces} \cup {<<a, b>> : a \in Pieces, b \in Pieces}

\* an environment variable: unset, set to bytes that are not Unicode, or
\* set to a text
ApiKeyUnset == [set |-> FALSE, unicode |-> TRUE, text |-> <<>>]

ApiKeyNotUnicode == [set |-> TRUE, unicode |-> FALSE, text |-> <<>>]

ApiKeys ==
    {ApiKeyUnset, ApiKeyNotUnicode}
    \cup {[set |-> TRUE, unicode |-> TRUE, text |-> t] : t \in Texts}

\* a header: absent, present with bytes to_str rejects, or present with a
\* text
NoHeader == [present |-> FALSE, str |-> TRUE, text |-> <<>>]

OpaqueHeader == [present |-> TRUE, str |-> FALSE, text |-> <<>>]

HeaderValues ==
    {NoHeader, OpaqueHeader}
    \cup {[present |-> TRUE, str |-> TRUE, text |-> t] : t \in Texts}

\* lines 22-25
Routes == {"/api/compress", "/api/pdf", "/health", "/llm.txt"}

\* lines 76-79
IsPublic(path) == path = "/health" \/ path = "/llm.txt"

\* lines 83-89: std::env::var is Err for an unset and for a non-Unicode
\* value
ExpectedKey(apiKey) ==
    IF apiKey.set /\ apiKey.unicode /\ apiKey.text # <<>>
    THEN [some |-> TRUE, key |-> apiKey.text]
    ELSE [some |-> FALSE, key |-> <<>>]

\* lines 98-104
StripBearer(text) ==
    IF text # <<>> /\ Head(text) = "Bearer " THEN Tail(text) ELSE text

\* lines 92-105
ProvidedKey(xApiKey, authorization) ==
    LET h == IF xApiKey.present THEN xApiKey ELSE authorization
    IN  IF h.present /\ h.str
        THEN [some |-> TRUE, key |-> StripBearer(h.text)]
        ELSE [some |-> FALSE, key |-> <<>>]

Unauthorized == 401

\* what the middleware answers: the handler's response or its own 401
AuthResponse(path, apiKey, xApiKey, authorization) ==
    LET expected == ExpectedKey(apiKey)
        provided == ProvidedKey(xApiKey, authorization)
        handled  == [handler |-> TRUE, status |-> 0, error |-> ""]
    IN  IF IsPublic(path) THEN handled
        ELSE IF ~expected.some THEN handled
        ELSE IF provided.some /\ provided.key = expected.key THEN handled
        ELSE IF provided.some
        THEN [handler |-> FALSE, status |-> Unauthorized, error |-> "Invalid API key"]
        ELSE [handler |-> FALSE, status |-> Unauthorized, error |-> "Missing API key"]

\* a request for a route arrives at the middleware
AuthInit ==
    /\ ApiOther
    /\ \E path \in Routes, apiKey \in ApiKeys,
          xApiKey \in HeaderValues, authorization \in HeaderValues :
          api = [pc |-> "request", path |-> path, apiKey |-> apiKey,
                 xApiKey |-> xApiKey, authorization |-> authorization,
                 response |-> [handler |-> FALSE, status |-> 0, error |-> ""]]

\* lines 69-131
auth_middleware ==
    /\ api.pc = "request"
    /\ api' = [api EXCEPT !.pc = "answered",
                          !.response = AuthResponse(api.path, api.apiKey,
                                                    api.xApiKey, api.authorization)]
    /\ ApiFrame

AuthNext == auth_middleware

SpecAuth == AuthInit /\ [][AuthNext]_vars

\* the request carries the key: X-API-Key, or Authorization when X-API-Key
\* is absent, holds the key's text, a leading "Bearer " apart
CarriesKey(apiKey, xApiKey, authorization) ==
    LET h == IF xApiKey.present THEN xApiKey ELSE authorization
    IN  /\ h.present /\ h.str /\ apiKey.unicode
        /\ (IF h.text # <<>> /\ Head(h.text) = "Bearer " THEN Tail(h.text) ELSE h.text)
              = apiKey.text

KeyConfigured(apiKey) == apiKey.set /\ ~(apiKey.unicode /\ apiKey.text = <<>>)

\* C28: authentication gate.  With API_KEY set to a non-empty value a
\* request for a path other than /health and /llm.txt reaches its handler
\* only if it carries the exact key, and gets 401 without the handler
\* running otherwise; /health and /llm.txt are always served; with API_KEY
\* unset or empty every request is passed through.
AuthGate ==
    api.pc = "answered" =>
        IF api.path \in {"/health", "/llm.txt"} \/ ~KeyConfigured(api.apiKey)
        THEN api.response.handler
        ELSE IF CarriesKey(api.apiKey, api.xApiKey, api.authorization)
        THEN api.response.handler
        ELSE ~api.response.handler /\ api.response.status = 401

\* the downsampling branch was taken for the request
DownsamplingApplied ==
    ds.pc = "done" /\ WantsDownsample(ds.quality, ds.width, ds.height)

\* C29: whenever downsampling is applied, in compress_image_stream or in
\* encode_image_with_quality, to a source of width and height at least 1,
\* the target width and the target height are both at least 1 and both at
\* most the cap: no dimension of an image of extreme aspect ratio becomes 0.
TargetDimsWithinCap ==
    DownsamplingApplied /\ ds.width >= 1 /\ ds.height >= 1 =>
        /\ ds.tw >= 1 /\ ds.th >= 1
        /\ ds.tw <= MaxDimension(ds.quality)
        /\ ds.th <= MaxDimension(ds.quality)

\* what a reader of the document gets from a stream: the payload with the
\* Filter inverted and, under a Filter, the predictor of DecodeParms undone
Decoded(s) ==
    IF s.filter = "None" THEN [ok |-> TRUE, coding |-> s.coding]
    ELSE IF s.filter = "FlateDecode" /\ s.coding # <<>> /\ Head(s.coding) = "zlib"
    THEN [ok |-> TRUE,
          coding |-> IF s.predictor THEN UndoPredictor(Tail(s.coding))
                     ELSE Tail(s.coding)]
    ELSE [ok |-> FALSE, coding |-> <<>>]

\* C30: content round-trip of generic replacements.  For every stream that
\* is not an image and that compress_generic_stream replaces, decoding the
\* new payload under the new dictionary, its Filter with the DecodeParms it
\* retained, gives the bytes that decoding the original payload under the
\* original dictionary gives.
GenericRoundTrip ==
    call.pc \in {"parallel", "strip"} =>
        \A k \in Replaced :
            ~call.work[k].stream.image =>
                /\ Decoded(call.outcomes[k].stream).ok
                /\ Decoded(call.outcomes[k].stream) = Decoded(call.work[k].stream)

====
